---- MODULE Spec2Model ----
(***************************************************************************)
(* KYC submission / review lifecycle of the rental marketplace.            *)
(*                                                                         *)
(* The database tables kyc_verifications, profiles and notifications, the  *)
(* stored procedure process_kyc_approval, the client service functions     *)
(* createKYCSubmission / approveKYC / rejectKYC / resetKYCForResubmission  *)
(* and the admin review dialog (handleApprove / handleReject).             *)
(***************************************************************************)
EXTENDS Integers, Sequences, FiniteSets, TLC

(***************************************************************************)
(* Bounds of the model.                                                    *)
(***************************************************************************)
MaxNotifications == 2   \* rows the notifications table may hold
MaxRequestCount == 4    \* otp_request_count a window row may reach
MaxWindowRows == 2      \* rows of one pair after which no further call is started

(***************************************************************************)
(* Values.                                                                 *)
(***************************************************************************)
NULL == "NULL"          \* SQL NULL of a text / uuid column
NULL_TS == -1           \* SQL NULL of a timestamptz column
NULL_ID == 0            \* SQL NULL of the uuid primary key domain
NULL_TEXT == <<>>       \* SQL NULL of a free-text column (see Text)
Text(s) == <<s>>        \* a non-null free text; s is a sequence of characters

Admins == {"a1"}                    \* profiles whose role is admin
Applicants == {"u1", "u2"}          \* profiles that apply for host KYC
Users == Applicants \cup Admins     \* profiles(id)
Callers == {"u1", "a1"}             \* sessions that call approveKYC / rejectKYC directly
\* p_admin_id as such a session passes it: an administrator its own id
\* (user.id), any other session any value.
AdminIdInputs(caller) == IF caller \in Admins THEN {caller} ELSE {"u1", "a1"}
\* uuids: one per applicant, and one more that no case ever takes.
KycIds == 1..(Cardinality(Applicants) + 1)

\* Reasons typed into the reject dialog / passed to rejectKYC.
ReasonInputs == {<< >>, <<" ">>, <<"b", "d">>}
\* p_rejection_reason as a direct call passes it: left out (DEFAULT NULL) or given.
RpcReasons == {NULL_TEXT, Text(<<"b", "d">>)}

\* A phone number is the sequence of its characters: 9876543210.
Phone9876543210 == <<"9", "8", "7", "6", "5", "4", "3", "2", "1", "0">>

\* Payloads handleSubmitKYC hands to createKYCSubmission.
SubmitInputs ==
  { [phoneNumber |-> Phone9876543210, videoUrl |-> "v1", videoPublicId |-> "vp1",
     documentType |-> "aadhar", documentUrl |-> "d1", documentPublicId |-> "dp1"],
    [phoneNumber |-> Phone9876543210, videoUrl |-> "v2", videoPublicId |-> "vp2",
     documentType |-> "pan", documentUrl |-> "d2", documentPublicId |-> "dp2"] }

VARIABLES
  kyc_verifications,  \* table kyc_verifications: a set of rows
  profiles,           \* table profiles: id -> [role, kyc_status, identity_verified]
  notifications,      \* table notifications: rows in insertion order
  now,                \* the database clock now(); no operation of the lifecycle
                      \* reads a timestamp, and the clock stands still here
  resp,               \* the last request and its outcome
  inflight,           \* browser tab -> the createKYCSubmission call it is in
  recorder,           \* state of the VideoRecorder component of the video step
  wizard,             \* state of the HostKYCSubmission page (useState hooks)
  phone_verification_status,  \* table phone_verification_status: a set of rows
  verified_log,       \* the <<user, phone>> pairs verify-otp has answered verified for
  sent_log,           \* the OTP messages send-otp has dispatched: who, where to, when
  sending,            \* the sendOTP call each browser tab has in flight, if any
  endpoint            \* the request the send-otp / verify-otp edge function is serving

vars == <<kyc_verifications, profiles, notifications, now, resp, inflight, recorder, wizard,
          phone_verification_status, verified_log, sent_log, sending, endpoint>>
\* What the OTP service keeps.
otpVars == <<phone_verification_status, verified_log, sent_log, sending, endpoint>>
tables == <<kyc_verifications, profiles, notifications>>
\* What the operations of the review lifecycle leave alone.
clientVars == <<inflight, recorder, wizard, otpVars>>

(***************************************************************************)
(* String helpers.                                                         *)
(***************************************************************************)
IsSpace(c) == c = " "

RECURSIVE TrimStart(_)
TrimStart(s) ==
  IF s = << >> THEN << >>
  ELSE IF IsSpace(Head(s)) THEN TrimStart(Tail(s)) ELSE s

RECURSIVE TrimEnd(_)
TrimEnd(s) ==
  IF s = << >> THEN << >>
  ELSE IF IsSpace(s[Len(s)]) THEN TrimEnd(SubSeq(s, 1, Len(s) - 1)) ELSE s

\* String.prototype.trim
Trim(s) == TrimEnd(TrimStart(s))

\* COALESCE(p_rejection_reason, 'Please contact support.')
DefaultReasonText == <<"P", "c", "s">>
COALESCE(t, dflt) == IF t = NULL_TEXT THEN dflt ELSE t[1]

(***************************************************************************)
(* Rows.                                                                   *)
(***************************************************************************)
\* A row of kyc_verifications as INSERT builds it from the given columns and
\* the column defaults.
NewKycRow(id, user_id, data) ==
  [ id |-> id,
    user_id |-> user_id,
    phone_number |-> data.phoneNumber,
    phone_verified |-> FALSE,
    phone_otp |-> NULL,
    phone_otp_expires_at |-> NULL_TS,
    phone_otp_attempts |-> 0,
    video_url |-> data.videoUrl,
    video_public_id |-> data.videoPublicId,
    government_id_type |-> data.documentType,
    government_id_url |-> data.documentUrl,
    government_id_public_id |-> data.documentPublicId,
    status |-> "pending",
    rejection_reason |-> NULL_TEXT,
    reviewed_by |-> NULL,
    reviewed_at |-> NULL_TS,
    submitted_at |-> now ]

\* The rows of a user / with an id.
RowsOfUser(rows, u) == {r \in rows : r.user_id = u}
RowsWithId(rows, id) == {r \in rows : r.id = id}

\* gen_random_uuid(): an id no row holds.
FreshIds == {i \in KycIds : RowsWithId(kyc_verifications, i) = {}}
gen_random_uuid == CHOOSE i \in FreshIds : \A j \in FreshIds : i <= j

\* A row of notifications as create_notification inserts it.
Notification(p_user_id, p_type, p_title, p_message, p_priority) ==
  [ user_id |-> p_user_id, type |-> p_type, title |-> p_title,
    message |-> p_message, read |-> FALSE, priority |-> p_priority,
    related_id |-> NULL_ID ]

(***************************************************************************)
(* process_kyc_approval: the writes of the two branches.                   *)
(***************************************************************************)
\* UPDATE kyc_verifications SET status = 'approved', reviewed_by, reviewed_at
KycApprovedRow(r, p_admin_id) ==
  [r EXCEPT !.status = "approved", !.reviewed_by = p_admin_id, !.reviewed_at = now]

\* UPDATE profiles SET role = 'host', kyc_status = 'approved', identity_verified = true
ProfileApproved(p) ==
  [p EXCEPT !.role = "host", !.kyc_status = "approved", !.identity_verified = TRUE]

\* A variant that leaves p_priority to its default 'medium'.
ApprovalNotification_default_priority(v_user_id) ==
  Notification(v_user_id, "system", "KYC Approved", <<"approved">>, "medium")

\* PERFORM create_notification(v_user_id, 'system', 'KYC Approved', ..., 'high')
ApprovalNotification(v_user_id) ==
  Notification(v_user_id, "system", "KYC Approved", <<"approved">>, "high")

\* UPDATE kyc_verifications SET status = 'rejected', rejection_reason, reviewed_by, reviewed_at
KycRejectedRow(r, p_admin_id, p_rejection_reason) ==
  [r EXCEPT !.status = "rejected", !.rejection_reason = p_rejection_reason,
            !.reviewed_by = p_admin_id, !.reviewed_at = now]

\* A variant copied from the approval branch: it also sets role and
\* identity_verified.
ProfileRejected_as_approved(p) ==
  [p EXCEPT !.role = "host", !.kyc_status = "rejected", !.identity_verified = TRUE]

\* UPDATE profiles SET kyc_status = 'rejected'
ProfileRejected(p) == [p EXCEPT !.kyc_status = "rejected"]

\* PERFORM create_notification(v_user_id, 'system', 'KYC Rejected',
\*   '... Reason: ' || COALESCE(p_rejection_reason, 'Please contact support.'), 'high')
RejectionNotification(v_user_id, p_rejection_reason) ==
  Notification(v_user_id, "system", "KYC Rejected",
               <<"Reason: ">> \o COALESCE(p_rejection_reason, DefaultReasonText), "high")

\* An INSERT INTO notifications whose user_id column accepts NULL.
create_notification_nullable(rows, n) ==
  [error |-> "none", rows |-> Append(rows, n)]

\* INSERT INTO notifications: user_id is NOT NULL.
create_notification(rows, n) ==
  IF n.user_id = NULL THEN [error |-> "not_null_violation", rows |-> rows]
  ELSE [error |-> "none", rows |-> Append(rows, n)]

\* SELECT user_id INTO v_user_id FROM kyc_verifications WHERE id = p_kyc_id
SelectUserId(p_kyc_id) ==
  IF RowsWithId(kyc_verifications, p_kyc_id) = {} THEN NULL
  ELSE (CHOOSE r \in RowsWithId(kyc_verifications, p_kyc_id) : TRUE).user_id

\* The three writes of one call, in order, each on the result of the one before.
DecisionWrites(p_kyc_id, p_admin_id, p_approved, p_rejection_reason) ==
  LET v_user_id == SelectUserId(p_kyc_id)
      kyc1 == { IF r.id = p_kyc_id
                THEN (IF p_approved THEN KycApprovedRow(r, p_admin_id)
                      ELSE KycRejectedRow(r, p_admin_id, p_rejection_reason))
                ELSE r : r \in kyc_verifications }
      prof1 == [u \in Users |->
                 IF u = v_user_id
                 THEN (IF p_approved THEN ProfileApproved(profiles[u])
                       ELSE ProfileRejected(profiles[u]))
                 ELSE profiles[u]]
      ins == create_notification(notifications,
               IF p_approved THEN ApprovalNotification(v_user_id)
               ELSE RejectionNotification(v_user_id, p_rejection_reason))
  IN [kyc |-> kyc1, profiles |-> prof1, notifications |-> ins.rows,
      insert_error |-> ins.error]

\* Where a storage error strikes a call: nowhere, or at the write of a table.
\* A decision is run with none, or with one at its last statement.
WriteFaults == {"none", "kyc_verifications"}
DecisionFaults == {"none", "notifications"}

Unchanged(err) ==
  [error |-> err, kyc |-> kyc_verifications, profiles |-> profiles,
   notifications |-> notifications]

\* A variant that keeps the writes made before an error.
process_kyc_approval_partial(p_kyc_id, p_admin_id, p_approved, p_rejection_reason, fault) ==
  LET w == DecisionWrites(p_kyc_id, p_admin_id, p_approved, p_rejection_reason)
  IN CASE fault = "kyc_verifications" -> Unchanged("storage")
       [] fault = "profiles" -> [Unchanged("storage") EXCEPT !.kyc = w.kyc]
       [] fault = "notifications" ->
            [Unchanged("storage") EXCEPT !.kyc = w.kyc, !.profiles = w.profiles]
       [] w.insert_error # "none" ->
            [Unchanged(w.insert_error) EXCEPT !.kyc = w.kyc, !.profiles = w.profiles]
       [] OTHER -> [error |-> "none", kyc |-> w.kyc, profiles |-> w.profiles,
                    notifications |-> w.notifications]

\* CREATE FUNCTION process_kyc_approval(...) LANGUAGE plpgsql: one transaction;
\* an error raised by any statement undoes the statements before it.
process_kyc_approval(p_kyc_id, p_admin_id, p_approved, p_rejection_reason, fault) ==
  LET w == DecisionWrites(p_kyc_id, p_admin_id, p_approved, p_rejection_reason)
  IN IF fault # "none" THEN Unchanged("storage")
     ELSE IF w.insert_error # "none" THEN Unchanged(w.insert_error)
     ELSE [error |-> "none", kyc |-> w.kyc, profiles |-> w.profiles,
           notifications |-> w.notifications]

(***************************************************************************)
(* createKYCSubmission and reset_kyc_for_resubmission.                     *)
(***************************************************************************)
\* .upsert(values) with ON CONFLICT on user_id and no row-level policy: the
\* user's row is replaced whatever its status.
upsert_on_user_id(user_id, data) ==
  IF RowsOfUser(kyc_verifications, user_id) = {}
  THEN [error |-> "none",
        rows |-> kyc_verifications \cup {NewKycRow(gen_random_uuid, user_id, data)}]
  ELSE [error |-> "none",
        rows |-> { IF r.user_id = user_id THEN NewKycRow(r.id, user_id, data) ELSE r :
                   r \in kyc_verifications }]

\* supabase.from('kyc_verifications').upsert(values) with no onConflict option:
\* INSERT ... ON CONFLICT (id) DO UPDATE.  The values carry no id, so id takes
\* its default gen_random_uuid() and never conflicts; a row of the same user
\* violates UNIQUE (user_id) and the statement fails.
upsert(user_id, data) ==
  IF RowsOfUser(kyc_verifications, user_id) # {}
  THEN [error |-> "unique_violation", rows |-> kyc_verifications]
  ELSE [error |-> "none",
        rows |-> kyc_verifications \cup {NewKycRow(gen_random_uuid, user_id, data)}]

\* The row reset_kyc_for_resubmission leaves.
ResetRow(r) ==
  [r EXCEPT !.status = "pending", !.rejection_reason = NULL_TEXT,
            !.video_url = NULL, !.video_public_id = NULL,
            !.government_id_type = NULL, !.government_id_url = NULL,
            !.government_id_public_id = NULL, !.submitted_at = NULL_TS]

\* RPC reset_kyc_for_resubmission(p_user_id): resets the user's rejected case.
reset_kyc_for_resubmission(p_user_id) ==
  IF \E r \in RowsOfUser(kyc_verifications, p_user_id) : r.status = "rejected"
  THEN [error |-> "none",
        rows |-> { IF r.user_id = p_user_id /\ r.status = "rejected" THEN ResetRow(r) ELSE r :
                   r \in kyc_verifications }]
  ELSE [error |-> "not_rejected", rows |-> kyc_verifications]

\* A variant of the RPC argument: the reset names another user's case.
ResetTarget_other(user) == CHOOSE u \in Applicants : u # user

\* p_user_id: user.id
ResetTarget(user) == user

(***************************************************************************)
(* Requests.                                                               *)
(***************************************************************************)
\* What is seen of a request: error "none" when it succeeded, and then all of
\* its arguments; of a request that threw, which one it was and the error.
Reply(op, caller, kyc_id, admin_id, reason, error) ==
  resp' = IF error = "none"
          THEN [op |-> op, caller |-> caller, kyc_id |-> kyc_id, admin_id |-> admin_id,
                reason |-> reason, error |-> error]
          ELSE [op |-> op, caller |-> caller, kyc_id |-> kyc_id, admin_id |-> NULL,
                reason |-> NULL_TEXT, error |-> error]
Ok(r) == r.error = "none"

\* createKYCSubmission(data) in the session of `user` (NULL: signed out).
Submit(user, data, fault) ==
  /\ fault \in WriteFaults
  /\ IF user = NULL
     THEN /\ fault = "none"
          /\ Reply("submit", user, NULL_ID, NULL, NULL_TEXT, "not_authenticated")
          /\ UNCHANGED kyc_verifications
     ELSE LET res == upsert(user, data)
              error == IF fault # "none" THEN "storage" ELSE res.error
              ok == error = "none"
          IN /\ FreshIds # {}
             /\ kyc_verifications' = (IF ok THEN res.rows ELSE kyc_verifications)
             /\ Reply("submit", user, NULL_ID, NULL, NULL_TEXT, error)
  /\ UNCHANGED <<profiles, notifications, now>>

\* resetKYCForResubmission() in the session of `user` (NULL: signed out).
Reset(user, fault) ==
  /\ fault \in WriteFaults
  /\ IF user = NULL
     THEN /\ fault = "none"
          /\ Reply("reset", user, NULL_ID, NULL, NULL_TEXT, "not_authenticated")
          /\ UNCHANGED kyc_verifications
     ELSE LET res == reset_kyc_for_resubmission(ResetTarget(user))
              error == IF fault # "none" THEN "storage" ELSE res.error
              ok == error = "none"
          IN /\ kyc_verifications' = (IF ok THEN res.rows ELSE kyc_verifications)
             /\ Reply("reset", user, NULL_ID, NULL, NULL_TEXT, error)
  /\ UNCHANGED <<profiles, notifications, now>>

\* supabase.rpc('process_kyc_approval', ...) and what the caller sees.
CallProcessKycApproval(op, caller, p_kyc_id, p_admin_id, p_approved, p_reason, fault) ==
  LET res == process_kyc_approval(p_kyc_id, p_admin_id, p_approved, p_reason, fault)
  IN /\ Len(notifications) < MaxNotifications
     /\ kyc_verifications' = res.kyc
     /\ profiles' = res.profiles
     /\ notifications' = res.notifications
     /\ Reply(op, caller, p_kyc_id, p_admin_id, p_reason, res.error)

\* approveKYC(kycId, adminId) called from the session of `caller`.
approveKYC(caller, kycId, adminId, fault) ==
  /\ CallProcessKycApproval("approve", caller, kycId, adminId, TRUE, NULL_TEXT, fault)
  /\ UNCHANGED now

\* rejectKYC(kycId, adminId, reason) called from the session of `caller`.
rejectKYC(caller, kycId, adminId, reason, fault) ==
  /\ CallProcessKycApproval("reject", caller, kycId, adminId, FALSE, reason, fault)
  /\ UNCHANGED now

(***************************************************************************)
(* AdminKYCReview: the review dialog of a signed-in administrator.         *)
(***************************************************************************)
\* The Reject / Approve buttons are rendered for these statuses only.
DecisionButtonsShown(selectedKYC) == selectedKYC.status \in {"pending", "under_review"}

\* handleApprove(selectedKYC.id), on the row the administrator has just opened.
handleApprove(admin, selectedKYC, fault) ==
  /\ selectedKYC \in kyc_verifications
  /\ DecisionButtonsShown(selectedKYC)
  /\ approveKYC(admin, selectedKYC.id, admin, fault)

\* handleReject(): refuses a blank reason before calling rejectKYC.
handleReject(admin, selectedKYC, rejectionReason, fault) ==
  /\ selectedKYC \in kyc_verifications
  /\ DecisionButtonsShown(selectedKYC)
  /\ IF Trim(rejectionReason) = << >>
     THEN /\ fault = "none"
          /\ Reply("reject", admin, selectedKYC.id, admin, Text(rejectionReason),
                   "reason_required")
          /\ UNCHANGED <<tables, now>>
     ELSE rejectKYC(admin, selectedKYC.id, admin, Text(rejectionReason), fault)

(***************************************************************************)
(* The specification.                                                      *)
(***************************************************************************)
InitialProfile(u) ==
  [role |-> IF u \in Admins THEN "admin" ELSE "renter",
   kyc_status |-> NULL, identity_verified |-> FALSE,
   phone_number |-> NULL_TEXT, phone_verified |-> FALSE, phone_verified_at |-> NULL_TS]

\* The tables as the migration leaves them, before any request.
InitTables ==
  /\ kyc_verifications = {}
  /\ profiles = [u \in Users |-> InitialProfile(u)]
  /\ notifications = << >>
  /\ now = 0
  /\ resp = [op |-> "none", caller |-> NULL, kyc_id |-> NULL_ID, admin_id |-> NULL,
             reason |-> NULL_TEXT, error |-> "none"]

\* No call is in flight in any tab.
NoCall == [user |-> NULL]
SendTabs == {"t1", "t2"}
NotSending == [pc |-> "idle"]
NoRequest == [pc |-> "idle"]
Tabs == {"t1", "t2", "t3"}
\* The HostKYCSubmission page as its useState initial values leave it.
InitialWizard ==
  [ effectPending |-> TRUE,      \* useEffect(checkExistingKYC, []) has yet to run
    currentStep |-> "phone", existingKYC |-> NULL, isResubmission |-> FALSE,
    phoneNumber |-> << >>, documentType |-> "aadhar",
    uploadedVideoUrl |-> "", uploadedVideoPublicId |-> "",
    uploadedDocUrl |-> "", uploadedDocPublicId |-> "" ]
\* The timer of startRecording: whether setInterval is armed, and the value
\* of isRecording that the stopRecording its callback calls was created with.
NoTimer == [armed |-> FALSE, isRecording |-> FALSE]
\* The VideoRecorder component as its useState and useRef initial values leave
\* it; uploads counts the handleVideoRecorded calls that await uploadKYCVideo.
InitialComponent ==
  [ isRecording |-> FALSE, isPreviewing |-> FALSE, recordingTime |-> 0,
    videoBlob |-> FALSE, stopping |-> FALSE, timerRef |-> NoTimer ]
InitialRecorder == [component |-> InitialComponent, uploads |-> 0]
InitClients ==
  /\ inflight = [t \in Tabs |-> NoCall]
  /\ recorder = InitialRecorder
  /\ wizard = InitialWizard
  /\ phone_verification_status = {}
  /\ verified_log = {}
  /\ sent_log = {}
  /\ sending = [t \in SendTabs |-> NotSending]
  /\ endpoint = NoRequest

Init == InitTables /\ InitClients

Next ==
  \/ \E user \in Applicants \cup {NULL}, data \in SubmitInputs,
        fault \in WriteFaults :
       Submit(user, data, fault) /\ UNCHANGED clientVars
  \/ \E user \in Applicants \cup {NULL}, fault \in WriteFaults :
       Reset(user, fault) /\ UNCHANGED clientVars
  \/ \E caller \in Callers, kycId \in KycIds, fault \in DecisionFaults :
     \E adminId \in AdminIdInputs(caller) :
       approveKYC(caller, kycId, adminId, fault) /\ UNCHANGED clientVars
  \/ \E caller \in Callers, kycId \in KycIds, reason \in RpcReasons,
        fault \in DecisionFaults :
     \E adminId \in AdminIdInputs(caller) :
       rejectKYC(caller, kycId, adminId, reason, fault) /\ UNCHANGED clientVars
  \/ \E admin \in Admins, r \in kyc_verifications, fault \in DecisionFaults :
       handleApprove(admin, r, fault) /\ UNCHANGED clientVars
  \/ \E admin \in Admins, r \in kyc_verifications, reason \in ReasonInputs,
        fault \in DecisionFaults :
       handleReject(admin, r, reason, fault) /\ UNCHANGED clientVars

Spec == Init /\ [][Next]_vars

(***************************************************************************)
(* Vocabulary of the properties.  Every request leaves in resp what was    *)
(* asked and how it ended, so a step is read off resp'.                    *)
(***************************************************************************)
Undecided == {"pending", "under_review"}

\* The case with id k, and its status (NULL when there is none).
HasCase(k) == RowsWithId(kyc_verifications, k) # {}
CaseOf(k) == CHOOSE r \in RowsWithId(kyc_verifications, k) : TRUE
StatusOf(k) == IF HasCase(k) THEN CaseOf(k).status ELSE NULL

\* The step is a call of process_kyc_approval (Approve / Reject).
ApproveStep == resp'.op = "approve"
RejectStep == resp'.op = "reject"
DecisionStep == ApproveStep \/ RejectStep

\* The notifications of a user.
NotificationsOf(rows, u) == SelectSeq(rows, LAMBDA n : n.user_id = u)

\* The step adds exactly one notification, for user u, and keeps the others.
OneNotificationAdded(u) ==
  /\ Len(notifications') = Len(notifications) + 1
  /\ SubSeq(notifications', 1, Len(notifications)) = notifications
  /\ notifications'[Len(notifications')].user_id = u

\* txt occurs in msg.
Contains(msg, txt) ==
  \E i \in 1..(Len(msg) + 1) :
    /\ i + Len(txt) - 1 <= Len(msg)
    /\ SubSeq(msg, i, i + Len(txt) - 1) = txt

(***************************************************************************)
(* C1.  Approve or Reject on a case that is already approved or rejected   *)
(* is refused: the call fails and the case row, the profiles and the       *)
(* notifications are as before.                                            *)
(***************************************************************************)
C1_DecidedCaseRefused ==
  [][(DecisionStep /\ StatusOf(resp'.kyc_id) \in {"approved", "rejected"})
       => (~Ok(resp') /\ UNCHANGED tables)]_vars

(***************************************************************************)
(* C2.  A caller whose profile is not an administrator's cannot decide a   *)
(* case: the call fails, and every case status, the profiles and the       *)
(* notifications are as before.                                            *)
(***************************************************************************)
C2_OnlyAdminDecides ==
  [][(DecisionStep /\ profiles[resp'.caller].role # "admin")
       => /\ ~Ok(resp')
          /\ \A r \in kyc_verifications :
               \E r2 \in kyc_verifications' : r2.id = r.id /\ r2.status = r.status
          /\ profiles' = profiles
          /\ notifications' = notifications]_vars

(***************************************************************************)
(* C3.  A decision is all-or-nothing: every Approve or Reject either       *)
(* applies the case update, the profile update and the notification        *)
(* insert, or fails and applies none of them.                              *)
(***************************************************************************)
Promoted(u) == profiles[u].role = "host" /\ profiles[u].identity_verified

\* The writes of a decision, as seen across the step.
CaseWritten(k, target) ==
  \E r2 \in kyc_verifications' :
    r2.id = k /\ r2.status = target /\ r2.reviewed_at # NULL_TS
ProfileWritten(u, target) == profiles'[u].kyc_status = target

AllOrNothing(k, target) ==
  \/ ~Ok(resp') /\ UNCHANGED tables
  \/ /\ Ok(resp')
     /\ HasCase(k)
     /\ CaseWritten(k, target)
     /\ ProfileWritten(CaseOf(k).user_id, target)
     /\ OneNotificationAdded(CaseOf(k).user_id)

DecisionsAreAtomic ==
  /\ ApproveStep => AllOrNothing(resp'.kyc_id, "approved")
  /\ RejectStep => AllOrNothing(resp'.kyc_id, "rejected")

ApprovedImpliesPromoted ==
  \A r \in kyc_verifications : r.status = "approved" => Promoted(r.user_id)

\* The claim as stated: also, no promoted profile and no notification while
\* the user's case is undecided.
C3_AllOrNothing_AsStated ==
  /\ [][DecisionsAreAtomic]_vars
  /\ [](ApprovedImpliesPromoted)
  /\ [](\A u \in Users :
          (Promoted(u) \/ NotificationsOf(notifications, u) # << >>)
            => \E r \in RowsOfUser(kyc_verifications, u) :
                 r.status \in {"approved", "rejected"})

\* C3 as amended: a decision is all-or-nothing; an approved case always has a
\* promoted profile; a promoted profile or a notification exists only for a
\* user whose case has been decided at least once (reviewed_at is set).
C3_AllOrNothing ==
  /\ [][DecisionsAreAtomic]_vars
  /\ [](ApprovedImpliesPromoted)
  /\ [](\A u \in Users :
          (Promoted(u) \/ NotificationsOf(notifications, u) # << >>)
            => \E r \in RowsOfUser(kyc_verifications, u) : r.reviewed_at # NULL_TS)

\* A decision on a waiting case hit a storage error, and nothing of it is
\* left: no notification, no reviewed case.
C3_Witness ==
  /\ resp.op \in {"approve", "reject"}
  /\ resp.error = "storage"
  /\ notifications = << >>
  /\ HasCase(resp.kyc_id)
  /\ CaseOf(resp.kyc_id).status = "pending"
  /\ CaseOf(resp.kyc_id).reviewed_at = NULL_TS

(***************************************************************************)
(* C4.  Approve on a case in status pending or under_review sets the case  *)
(* to approved with reviewed_by = the admin given and reviewed_at set,     *)
(* sets the owner's profile to role host and identity_verified, and adds   *)
(* exactly one notification, for the owner, with priority high.            *)
(***************************************************************************)
C4_ApproveEffect ==
  [][(ApproveStep /\ Ok(resp') /\ StatusOf(resp'.kyc_id) \in Undecided)
       => LET k == resp'.kyc_id
              u == CaseOf(k).user_id
          IN /\ \E r2 \in kyc_verifications' :
                  /\ r2.id = k
                  /\ r2.status = "approved"
                  /\ r2.reviewed_by = resp'.admin_id
                  /\ r2.reviewed_at # NULL_TS
                  /\ RowsWithId(kyc_verifications', k) = {r2}
             /\ profiles'[u].role = "host"
             /\ profiles'[u].identity_verified = TRUE
             /\ OneNotificationAdded(u)
             /\ notifications'[Len(notifications')].priority = "high"]_vars

\* The administrator has approved a waiting case: the first decision taken.
C4_Witness ==
  /\ resp.op = "approve" /\ Ok(resp) /\ resp.caller \in Admins
  /\ Len(notifications) = 1
  /\ CaseOf(resp.kyc_id).status = "approved"
  /\ CaseOf(resp.kyc_id).reviewed_by = resp.caller

(***************************************************************************)
(* C5.  Reject on a case in status pending or under_review sets the case   *)
(* to rejected, stores the reason given, sets reviewed_by and reviewed_at, *)
(* sets the owner's profile kyc_status to rejected, adds one notification  *)
(* of priority high that contains the reason, and leaves the role and      *)
(* identity_verified of every profile as they were.                        *)
(***************************************************************************)
C5_RejectEffect ==
  [][(RejectStep /\ Ok(resp') /\ StatusOf(resp'.kyc_id) \in Undecided)
       => LET k == resp'.kyc_id
              u == CaseOf(k).user_id
          IN /\ \E r2 \in kyc_verifications' :
                  /\ r2.id = k
                  /\ r2.status = "rejected"
                  /\ r2.reviewed_by = resp'.admin_id
                  /\ r2.reviewed_at # NULL_TS
                  /\ RowsWithId(kyc_verifications', k) = {r2}
                  /\ r2.rejection_reason = resp'.reason
                  /\ resp'.reason # NULL_TEXT =>
                       Contains(notifications'[Len(notifications')].message,
                                resp'.reason[1])
             /\ profiles'[u].kyc_status = "rejected"
             /\ \A v \in Users :
                  /\ profiles'[v].role = profiles[v].role
                  /\ profiles'[v].identity_verified = profiles[v].identity_verified
             /\ OneNotificationAdded(u)
             /\ notifications'[Len(notifications')].priority = "high"]_vars

\* The administrator has rejected a waiting case with a reason: the first
\* decision taken.
C5_Witness ==
  /\ resp.op = "reject" /\ Ok(resp) /\ resp.caller \in Admins
  /\ Len(notifications) = 1
  /\ CaseOf(resp.kyc_id).status = "rejected"
  /\ CaseOf(resp.kyc_id).rejection_reason = Text(<<"b", "d">>)
  /\ profiles[CaseOf(resp.kyc_id).user_id].role = "renter"

(***************************************************************************)
(* C6.  Reject requires a non-empty reason: a Reject whose reason is null, *)
(* empty or only whitespace is refused and changes no table, so no case is *)
(* ever rejected with a null or empty rejection_reason.                    *)
(***************************************************************************)
Blank(t) == t = NULL_TEXT \/ Trim(t[1]) = << >>

C6_RejectNeedsReason ==
  /\ [][(RejectStep /\ Blank(resp'.reason)) => (~Ok(resp') /\ UNCHANGED tables)]_vars
  /\ [](\A r \in kyc_verifications :
          r.status = "rejected" =>
            (r.rejection_reason # NULL_TEXT /\ r.rejection_reason # Text(<< >>)))

(***************************************************************************)
(* C7.  In every reachable state, a case carries a rejection_reason only   *)
(* if its status is rejected.                                              *)
(***************************************************************************)
C7_ReasonOnlyWhenRejected ==
  \A r \in kyc_verifications : r.rejection_reason # NULL_TEXT => r.status = "rejected"

(***************************************************************************)
(* C8.  Reset-for-resubmission called by the owner of a rejected case      *)
(* leaves the same row with status pending and with rejection_reason, the  *)
(* evidence references and submitted_at cleared; called on a case in any   *)
(* other status, or with no case, it changes nothing.                      *)
(***************************************************************************)
ResetStep == resp'.op = "reset" /\ resp'.caller \in Applicants /\ resp'.error # "storage"

C8_ResetEffect ==
  [][ResetStep =>
       LET u == resp'.caller
           mine == RowsOfUser(kyc_verifications, u)
       IN IF \E r \in mine : r.status = "rejected"
          THEN /\ Ok(resp')
               /\ \A r \in mine :
                    \E r2 \in kyc_verifications' :
                      /\ RowsOfUser(kyc_verifications', u) = {r2}
                      /\ r2.id = r.id
                      /\ r2.status = "pending"
                      /\ r2.rejection_reason = NULL_TEXT
                      /\ r2.video_url = NULL /\ r2.video_public_id = NULL
                      /\ r2.government_id_url = NULL
                      /\ r2.government_id_public_id = NULL
                      /\ r2.submitted_at = NULL_TS
               /\ \A r \in kyc_verifications : r.user_id # u => r \in kyc_verifications'
               /\ UNCHANGED <<profiles, notifications>>
          ELSE UNCHANGED tables]_vars

\* A user has reset their rejected case.
C8_Witness ==
  /\ resp.op = "reset" /\ Ok(resp)
  /\ \E r \in RowsOfUser(kyc_verifications, resp.caller) :
       /\ r.status = "pending" /\ r.video_url = NULL /\ r.reviewed_at # NULL_TS
  /\ profiles[resp.caller].kyc_status = "rejected"

(***************************************************************************)
(* C9.  A Submit issued while the user's case is under_review, approved or *)
(* rejected leaves the stored row unchanged, and no Submit changes the row *)
(* of another user.                                                        *)
(***************************************************************************)
SubmitStep == resp'.op = "submit" /\ resp'.caller \in Applicants

C9_SubmitLeavesDecidedRows ==
  [][SubmitStep =>
       /\ \A r \in kyc_verifications :
            (r.user_id # resp'.caller \/ r.status # "pending")
              => /\ r \in kyc_verifications'
                 /\ RowsOfUser(kyc_verifications', r.user_id) = {r}
       /\ UNCHANGED <<profiles, notifications>>]_vars

\* A Submit was refused on the caller's approved case while another user has a
\* case too.
C9_Witness ==
  /\ resp.op = "submit" /\ ~Ok(resp) /\ resp.error # "storage"
  /\ \E r \in RowsOfUser(kyc_verifications, resp.caller) : r.status = "approved"
  /\ \E r \in kyc_verifications : r.user_id # resp.caller

(***************************************************************************)
(* C10.  Submit is idempotent per user: a Submit that directly follows a   *)
(* successful Submit of the same user succeeds too, and leaves exactly one *)
(* row for the user, holding the data of the second call.                  *)
(***************************************************************************)
HoldsData(r, data) ==
  /\ r.phone_number = data.phoneNumber
  /\ r.video_url = data.videoUrl /\ r.video_public_id = data.videoPublicId
  /\ r.government_id_type = data.documentType
  /\ r.government_id_url = data.documentUrl
  /\ r.government_id_public_id = data.documentPublicId
  /\ r.status = "pending"

C10_SubmitTwice ==
  [][\A u \in Applicants, data \in SubmitInputs :
       (/\ resp.op = "submit" /\ resp.caller = u /\ Ok(resp)
        /\ Submit(u, data, "none"))
         => /\ Ok(resp')
            /\ \E r2 \in kyc_verifications' :
                 RowsOfUser(kyc_verifications', u) = {r2} /\ HoldsData(r2, data)]_vars

(***************************************************************************)
(* Concurrent submissions.  createKYCSubmission awaits twice: getUser(),   *)
(* then the upsert statement.  Calls of several browser tabs interleave at *)
(* these two points; the statement itself is atomic in the database.       *)
(***************************************************************************)
\* The session each tab is signed in to: two tabs of u1, one of u2.
TabUser == [t \in Tabs |-> IF t = "t3" THEN "u2" ELSE "u1"]

\* await supabase.auth.getUser(): the call of tab t has its user.
createKYCSubmission_getUser(t, data) ==
  /\ inflight[t] = NoCall
  /\ inflight' = [inflight EXCEPT ![t] = [user |-> TabUser[t], data |-> data]]
  /\ UNCHANGED <<tables, now, resp, recorder, wizard, otpVars>>

\* await supabase.from('kyc_verifications').upsert(...): the call of tab t
\* runs its statement and returns.
createKYCSubmission_upsert(t, fault) ==
  /\ inflight[t] # NoCall
  /\ Submit(inflight[t].user, inflight[t].data, fault)
  /\ inflight' = [inflight EXCEPT ![t] = NoCall]
  /\ UNCHANGED <<recorder, wizard, otpVars>>

NextRace ==
  \/ \E t \in Tabs, data \in SubmitInputs : createKYCSubmission_getUser(t, data)
  \/ \E t \in Tabs, fault \in WriteFaults : createKYCSubmission_upsert(t, fault)

SpecRace == Init /\ [][NextRace]_vars

\* The call of tab t returns in this step.
Returns(t) == inflight[t] # NoCall /\ inflight'[t] = NoCall

(***************************************************************************)
(* C11.  For any interleaving of concurrent Submit calls of one user, the  *)
(* store never holds more than one row of the user, and a Submit whose     *)
(* statement runs after another one's is applied as an overwrite: it       *)
(* succeeds and the user's row holds its data.                             *)
(***************************************************************************)
C11_LastWriterWins ==
  /\ [](\A u \in Applicants : Cardinality(RowsOfUser(kyc_verifications, u)) <= 1)
  /\ [][\A t \in Tabs :
          (Returns(t) /\ resp'.error # "storage"
             /\ RowsOfUser(kyc_verifications, inflight[t].user) # {})
            => /\ Ok(resp')
               /\ \E r2 \in kyc_verifications' :
                    /\ RowsOfUser(kyc_verifications', inflight[t].user) = {r2}
                    /\ HoldsData(r2, inflight[t].data)]_vars

(***************************************************************************)
(* The HostKYCSubmission page: the wizard phone -> video -> document ->    *)
(* review of one signed-in user.                                           *)
(***************************************************************************)
WizardUser == "u1"
Digits == {"0", "1", "2", "3", "4", "5", "6", "7", "8", "9"}

\* What the user may have in the phone field (maxLength 10) when it changes.
TypedPhones ==
  { Phone9876543210,
    <<"1", "2", "3", "4", "5", "6", "7", "8", "9", "0">>,
    <<"9", "8", "-", "7", "6", "5", "4", "3", "2", "1">>,
    <<"9", "8", "7", "6", "5">> }

\* Results of uploadKYCVideo / uploadKYCDocument; url "" stands for a throw.
UploadFailed == [url |-> "", publicId |-> ""]
VideoUploads == {[url |-> "v1", publicId |-> "vp1"], UploadFailed}
DocumentUploads == {[url |-> "d1", publicId |-> "dp1"], UploadFailed}
DocumentTypes == {"aadhar", "pan"}

\* value.replace(/\D/g, '').slice(0, 10)
DigitsOnly(value) == SelectSeq(value, LAMBDA c : c \in Digits)
Slice(str, from, to) ==
  SubSeq(str, from + 1, IF to < Len(str) THEN to ELSE Len(str))

\* if (existingKYC && !isResubmission) return <the status view>
StatusViewShown == wizard.existingKYC # NULL /\ ~wizard.isResubmission
StepShown(step) == ~StatusViewShown /\ wizard.currentStep = step

\* What a page handler leaves in resp: the handler and how it ended.
Handled(op, error) == Reply(op, WizardUser, NULL_ID, NULL, NULL_TEXT, error)

\* The page is opened (again): every useState hook is at its initial value.
mount ==
  /\ wizard # InitialWizard
  /\ wizard' = InitialWizard
  /\ Handled("mount", "none")
  /\ UNCHANGED <<tables, now, inflight, recorder, otpVars>>

\* checkExistingKYC(), run once by useEffect: getKYCSubmission() and the two
\* setters; a throw is logged and changes nothing.
checkExistingKYC(fault) ==
  /\ wizard.effectPending
  /\ LET mine == RowsOfUser(kyc_verifications, WizardUser)
         kyc == IF mine = {} THEN NULL ELSE (CHOOSE r \in mine : TRUE).status
     IN IF fault # "none" \/ kyc = NULL
        THEN wizard' = [wizard EXCEPT !.effectPending = FALSE]
        ELSE wizard' = [wizard EXCEPT !.effectPending = FALSE,
                                      !.existingKYC = kyc,
                                      !.isResubmission = (kyc = "rejected")]
  /\ Handled("checkExistingKYC", IF fault # "none" THEN "storage" ELSE "none")
  /\ UNCHANGED <<tables, now, inflight, recorder, otpVars>>

\* onChange of the phone field.
setPhoneNumber(value) ==
  /\ StepShown("phone")
  /\ wizard' = [wizard EXCEPT !.phoneNumber = Slice(DigitsOnly(value), 0, 10)]
  /\ Handled("setPhoneNumber", "none")
  /\ UNCHANGED <<tables, now, inflight, recorder, otpVars>>

handlePhoneSubmit ==
  /\ StepShown("phone")
  /\ IF wizard.phoneNumber = << >> \/ Len(wizard.phoneNumber) # 10
     THEN /\ Handled("handlePhoneSubmit", "Invalid Phone Number")
          /\ UNCHANGED wizard
     ELSE /\ wizard' = [wizard EXCEPT !.currentStep = "video"]
          /\ Handled("handlePhoneSubmit", "none")
  /\ UNCHANGED <<tables, now, inflight, recorder, otpVars>>

handleVideoRecorded(result) ==
  /\ StepShown("video")
  /\ IF result = UploadFailed
     THEN /\ Handled("handleVideoRecorded", "Upload Failed")
          /\ UNCHANGED wizard
     ELSE /\ wizard' = [wizard EXCEPT !.uploadedVideoUrl = result.url,
                                      !.uploadedVideoPublicId = result.publicId,
                                      !.currentStep = "document"]
          /\ Handled("handleVideoRecorded", "none")
  /\ UNCHANGED <<tables, now, inflight, recorder, otpVars>>

setDocumentType(value) ==
  /\ StepShown("document")
  /\ wizard' = [wizard EXCEPT !.documentType = value]
  /\ Handled("setDocumentType", "none")
  /\ UNCHANGED <<tables, now, inflight, recorder, otpVars>>

handleDocumentUpload(result) ==
  /\ StepShown("document")
  /\ IF result = UploadFailed
     THEN /\ Handled("handleDocumentUpload", "Upload Failed")
          /\ UNCHANGED wizard
     ELSE /\ wizard' = [wizard EXCEPT !.uploadedDocUrl = result.url,
                                      !.uploadedDocPublicId = result.publicId,
                                      !.currentStep = "review"]
          /\ Handled("handleDocumentUpload", "none")
  /\ UNCHANGED <<tables, now, inflight, recorder, otpVars>>

\* The argument handleSubmitKYC builds from the page state.
WizardData ==
  [ phoneNumber |-> wizard.phoneNumber,
    videoUrl |-> wizard.uploadedVideoUrl,
    videoPublicId |-> wizard.uploadedVideoPublicId,
    documentType |-> wizard.documentType,
    documentUrl |-> wizard.uploadedDocUrl,
    documentPublicId |-> wizard.uploadedDocPublicId ]

handleSubmitKYC(fault) ==
  /\ StepShown("review")
  /\ Submit(WizardUser, WizardData, fault)
  /\ UNCHANGED <<inflight, recorder, wizard, otpVars>>

(***************************************************************************)
(* Phone validation and OTP verification.  OTPService.verifyOTP formats    *)
(* the number, asks the verify-otp endpoint, and on verified = true marks  *)
(* the user's phone_verification_status rows and profile as verified.      *)
(***************************************************************************)
\* INDIAN_PHONE_WITH_CODE_REGEX = /^\+91[6-9]\d{9}$/
IsCanonicalPhone(p) ==
  /\ Len(p) = 13
  /\ SubSeq(p, 1, 3) = <<"+", "9", "1">>
  /\ p[4] \in {"6", "7", "8", "9"}
  /\ \A i \in 5..13 : p[i] \in Digits

\* A cleaning step that strips no whitespace.
Whitespace_none == {}
Whitespace == {" "}
Plus91 == <<"+", "9", "1">>

StartsWith(str, prefix) ==
  Len(str) >= Len(prefix) /\ SubSeq(str, 1, Len(prefix)) = prefix

\* A pattern that accepts any first digit: /^\d{10}$/
INDIAN_PHONE_REGEX_any_first_digit(number) ==
  /\ Len(number) = 10
  /\ \A i \in 1..10 : number[i] \in Digits

\* INDIAN_PHONE_REGEX = /^[6-9]\d{9}$/
INDIAN_PHONE_REGEX(number) ==
  /\ Len(number) = 10
  /\ number[1] \in {"6", "7", "8", "9"}
  /\ \A i \in 2..10 : number[i] \in Digits

InvalidPhone(error) == [isValid |-> FALSE, formatted |-> << >>, error |-> error]
ValidPhone(number) == [isValid |-> TRUE, formatted |-> Plus91 \o number, error |-> ""]

validateIndianPhoneNumber(phone) ==
  LET cleaned == SelectSeq(phone, LAMBDA c : c \notin Whitespace /\ c # "-")
  IN  IF StartsWith(cleaned, Plus91)
      THEN IF INDIAN_PHONE_REGEX(Slice(cleaned, 3, Len(cleaned)))
           THEN ValidPhone(Slice(cleaned, 3, Len(cleaned)))
           ELSE InvalidPhone("Invalid Indian phone number")
      ELSE IF /\ StartsWith(cleaned, <<"9", "1">>) /\ Len(cleaned) = 12
              /\ INDIAN_PHONE_REGEX(Slice(cleaned, 2, Len(cleaned)))
      THEN ValidPhone(Slice(cleaned, 2, Len(cleaned)))
      ELSE IF Len(cleaned) = 10 /\ INDIAN_PHONE_REGEX(cleaned)
      THEN ValidPhone(cleaned)
      ELSE InvalidPhone("Invalid phone number format")

\* /^\d{6}$/
IsSixDigits(otp) == Len(otp) = 6 /\ \A i \in 1..6 : otp[i] \in Digits

\* What a provider does with a check: it accepts the code, refuses it, or
\* cannot be reached / is not configured (the call throws).
ProviderOutcomes == {"approved", "denied", "throws"}

\* The verify-otp endpoint: MSG91 first, Twilio only when MSG91 throws.
\* ok is the HTTP status being 2xx.
verify_otp(phoneNumber, otp, msg91, twilio) ==
  IF ~IsCanonicalPhone(phoneNumber) \/ ~IsSixDigits(otp)
  THEN [ok |-> FALSE, success |-> FALSE, verified |-> FALSE, provider |-> "none"]
  ELSE IF msg91 # "throws"
  THEN [ok |-> TRUE, success |-> TRUE, verified |-> (msg91 = "approved"), provider |-> "msg91"]
  ELSE IF twilio # "throws"
  THEN [ok |-> TRUE, success |-> TRUE, verified |-> (twilio = "approved"), provider |-> "twilio"]
  ELSE [ok |-> FALSE, success |-> FALSE, verified |-> FALSE, provider |-> "none"]

\* Where a storage error strikes updatePhoneVerificationStatus; both errors
\* are only logged.
VerifyFaults == {"none", "phone_verification_status", "profiles"}

RowsOfPhone(rows, userId, phoneNumber) ==
  {r \in rows : r.user_id = userId /\ r.phone_number = phoneNumber}

MarkVerified(r) ==
  [r EXCEPT !.is_verified = TRUE, !.verified_at = now, !.verification_method = "msg91"]

updatePhoneVerificationStatus(phoneNumber, userId, fault) ==
  /\ phone_verification_status' =
       IF fault = "phone_verification_status" THEN phone_verification_status
       ELSE {IF r \in RowsOfPhone(phone_verification_status, userId, phoneNumber)
             THEN MarkVerified(r) ELSE r : r \in phone_verification_status}
  /\ profiles' =
       IF fault = "profiles" THEN profiles
       ELSE [profiles EXCEPT ![userId].phone_number = Text(phoneNumber),
                             ![userId].phone_verified = TRUE,
                             ![userId].phone_verified_at = now]

OtpInputs == {<<"1", "2", "3", "4", "5", "6">>, <<"1", "2", "3">>}

\* What a verifyOTP call leaves in resp; invoked tells whether the call got
\* as far as supabase.functions.invoke('verify-otp'), provider is the
\* provider field of the answer it received ("none" without an answer).
VerifyReply(user, phoneNumber, otp, error, invoked, provider) ==
  resp' = [op |-> "verifyOTP", caller |-> user, kyc_id |-> NULL_ID, admin_id |-> NULL,
           reason |-> NULL_TEXT, error |-> error, phone |-> phoneNumber,
           otp |-> otp, invoked |-> invoked, provider |-> provider]

verifyOTP(user, phoneNumber, otp, msg91, twilio, fault) ==
  LET validation == validateIndianPhoneNumber(phoneNumber)
      data == verify_otp(validation.formatted, otp, msg91, twilio)
      Refused(error, invoked) ==
        /\ VerifyReply(user, phoneNumber, otp, error, invoked,
                       IF invoked THEN data.provider ELSE "none")
        /\ UNCHANGED <<profiles, otpVars>>
  IN  /\ IF ~validation.isValid THEN Refused("invalid_phone", FALSE)
         ELSE IF ~IsSixDigits(otp) THEN Refused("invalid_otp", FALSE)
         ELSE IF ~data.ok THEN Refused("endpoint", TRUE)
         ELSE IF ~data.verified THEN Refused("not_verified", TRUE)
         ELSE /\ updatePhoneVerificationStatus(validation.formatted, user, fault)
              /\ verified_log' = verified_log \cup {<<user, validation.formatted>>}
              /\ VerifyReply(user, phoneNumber, otp, "none", TRUE, data.provider)
      /\ UNCHANGED <<kyc_verifications, notifications, now, inflight, recorder, wizard, endpoint, sent_log, sending>>

NextWizard ==
  \/ mount
  \/ \E fault \in WriteFaults : checkExistingKYC(fault)
  \/ \E value \in TypedPhones : setPhoneNumber(value)
  \/ handlePhoneSubmit
  \/ \E result \in VideoUploads : handleVideoRecorded(result)
  \/ \E value \in DocumentTypes : setDocumentType(value)
  \/ \E result \in DocumentUploads : handleDocumentUpload(result)
  \/ \E fault \in WriteFaults : handleSubmitKYC(fault)
  \/ \E r \in kyc_verifications :
       handleReject("a1", r, <<"b", "d">>, "none") /\ UNCHANGED clientVars
  \/ \E phoneNumber \in TypedPhones, otp \in OtpInputs,
        msg91 \in ProviderOutcomes, twilio \in ProviderOutcomes, fault \in VerifyFaults :
       verifyOTP(WizardUser, phoneNumber, otp, msg91, twilio, fault)

SpecWizard == Init /\ [][NextWizard]_vars

(***************************************************************************)
(* C12.  Every case row written by Submit has status pending, a            *)
(* submitted_at timestamp and a phone_number of the canonical form: +91    *)
(* followed by ten digits whose first is 6-9.                              *)
(***************************************************************************)
C12_SubmittedRowCanonical ==
  [][(SubmitStep /\ Ok(resp'))
       => \E r2 \in kyc_verifications' :
            /\ RowsOfUser(kyc_verifications', resp'.caller) = {r2}
            /\ r2.status = "pending"
            /\ r2.submitted_at # NULL_TS
            /\ IsCanonicalPhone(r2.phone_number)]_vars

(***************************************************************************)
(* C13.  In every state reachable through Submit, Approve, Reject and      *)
(* Reset from users who start unverified, a user's case is approved if and *)
(* only if the user's profile has role host and identity_verified: a user  *)
(* whose case is rejected or pending never holds the promoted profile.     *)
(***************************************************************************)
C13_ApprovedIffPromoted ==
  \A u \in Applicants :
    (\E r \in RowsOfUser(kyc_verifications, u) : r.status = "approved") <=> Promoted(u)

(***************************************************************************)
(* The lifecycle run on: requests keep being served, and a step that moves *)
(* a pending case to under_review is taken if it is possible again and     *)
(* again.                                                                  *)
(***************************************************************************)
CasePending == \E r \in kyc_verifications : r.status = "pending"
CaseUnderReview == \E r \in kyc_verifications : r.status = "under_review"

\* A step of the lifecycle that moves a pending case to under_review.
EntersUnderReview ==
  /\ Next
  /\ \E r \in kyc_verifications, r2 \in kyc_verifications' :
       r2.id = r.id /\ r.status = "pending" /\ r2.status = "under_review"

SpecLive == Spec /\ WF_vars(Next) /\ SF_vars(EntersUnderReview)

(***************************************************************************)
(* C14.  The lifecycle has the edge pending -> under_review: an operation  *)
(* moves a pending case to under_review, so in a run in which a case is    *)
(* pending again and again, a case is eventually under_review.             *)
(***************************************************************************)
C14_UnderReviewReachable == ([]<>CasePending) => <>CaseUnderReview

(***************************************************************************)
(* C15.  Every successful createKYCSubmission is preceded by a verify-otp  *)
(* answer with verified = true for the same user and the same phone        *)
(* number.                                                                 *)
(***************************************************************************)
SamePhone(stored, verified) ==
  \/ stored = verified
  \/ /\ validateIndianPhoneNumber(stored).isValid
     /\ validateIndianPhoneNumber(stored).formatted = verified

C15_SubmitAfterVerification ==
  [][(SubmitStep /\ Ok(resp'))
       => \E r2 \in RowsOfUser(kyc_verifications', resp'.caller) :
            \E v \in verified_log :
              v[1] = resp'.caller /\ SamePhone(r2.phone_number, v[2])]_vars

(***************************************************************************)
(* The OTP rate limiter.  A phone_verification_status row is the window of *)
(* a (user, phone) pair: otp_request_count sends since the window opened,  *)
(* last_otp_sent_at, and rate_limit_reset_at = the opening + one hour.     *)
(* Time is in seconds.                                                     *)
(***************************************************************************)
MAX_OTP_REQUESTS_PER_HOUR == 3
COOLDOWN_SECONDS == 60
WINDOW_SECONDS == 3600

\* The moments at which requests arrive.
Instants == {0, 10, 60, 120, 180, 3590, 3600, 3610}

\* The sessions that call the OTP service; NULL is a signed-out session.
Sessions == {"u1", NULL}
SendPhones == {Phone9876543210, <<"9", "8", "7", "6", "5">>}

\* Where a storage error strikes the limiter: at the read of checkRateLimit
\* (the check then lets the request pass) or at the write of updateRateLimit
\* (the error is caught and logged).
LimiterFaults == {"none", "read", "write"}

FullQuota ==
  [canSend |-> TRUE, remainingAttempts |-> MAX_OTP_REQUESTS_PER_HOUR,
   resetTime |-> NULL_TS, waitSeconds |-> 0, message |-> "none"]

\* The denial of the hourly cap: it carries the end of the window.
QuotaExceeded(resetTime) ==
  [canSend |-> FALSE, remainingAttempts |-> 0, resetTime |-> resetTime,
   waitSeconds |-> 0, message |-> "Rate limit exceeded"]

\* A cooldown denial whose message, unlike the code's, always says 60 seconds.
CoolingDown_full_minute(remainingAttempts, lastSent) ==
  [canSend |-> FALSE, remainingAttempts |-> remainingAttempts, resetTime |-> NULL_TS,
   waitSeconds |-> COOLDOWN_SECONDS, message |-> "Please wait"]

\* The denial of the cooldown: no resetTime, and a message that gives the
\* seconds left to wait, Math.ceil(60 - secondsSinceLastSend).
CoolingDown(remainingAttempts, lastSent) ==
  [canSend |-> FALSE, remainingAttempts |-> remainingAttempts, resetTime |-> NULL_TS,
   waitSeconds |-> COOLDOWN_SECONDS - (now - lastSent), message |-> "Please wait"]

\* The RateLimitStatus OTPService.checkRateLimit returns at the time now.
RateLimitStatus(user, phoneNumber, fault) ==
  LET rows == RowsOfPhone(phone_verification_status, user, phoneNumber) IN
  IF user = NULL
  THEN [canSend |-> FALSE, remainingAttempts |-> 0, resetTime |-> NULL_TS,
        waitSeconds |-> 0, message |-> "User not authenticated"]
  ELSE IF fault = "read" \/ Cardinality(rows) > 1 THEN FullQuota
  ELSE IF rows = {} THEN FullQuota
  ELSE LET data == CHOOSE r \in rows : TRUE
           resetTime == data.rate_limit_reset_at
           remainingAttempts == MAX_OTP_REQUESTS_PER_HOUR - data.otp_request_count
       IN  IF now > resetTime THEN FullQuota
           ELSE IF remainingAttempts <= 0
           THEN QuotaExceeded(resetTime)
           ELSE IF /\ data.last_otp_sent_at # NULL_TS
                   /\ now - data.last_otp_sent_at < COOLDOWN_SECONDS
           THEN CoolingDown(remainingAttempts, data.last_otp_sent_at)
           ELSE [canSend |-> TRUE, remainingAttempts |-> remainingAttempts,
                 resetTime |-> NULL_TS, waitSeconds |-> 0, message |-> "none"]

\* What a request of the OTP service leaves in resp.
OtpReply(op, user, phoneNumber, error, status) ==
  resp' = [op |-> op, caller |-> user, phone |-> phoneNumber, error |-> error,
           status |-> status]

\* A check that, unlike the code, opens a new window when it sees a stale one.
checkRateLimit_replaces_stale(user, phoneNumber, fault) ==
  /\ OtpReply("checkRateLimit", user, phoneNumber, "none",
              RateLimitStatus(user, phoneNumber, fault))
  /\ phone_verification_status' =
       {IF /\ r \in RowsOfPhone(phone_verification_status, user, phoneNumber)
           /\ now > r.rate_limit_reset_at
        THEN [r EXCEPT !.otp_request_count = 0,
                       !.rate_limit_reset_at = now + WINDOW_SECONDS]
        ELSE r : r \in phone_verification_status}
  /\ UNCHANGED <<tables, now, inflight, recorder, wizard, endpoint, verified_log, sent_log, sending>>

checkRateLimit(user, phoneNumber, fault) ==
  /\ OtpReply("checkRateLimit", user, phoneNumber, "none",
              RateLimitStatus(user, phoneNumber, fault))
  /\ UNCHANGED <<tables, now, inflight, recorder, wizard, otpVars>>

\* The row updateRateLimit writes for a send at the time now.
WindowRow(existing) ==
  IF now > existing.rate_limit_reset_at
  THEN [existing EXCEPT !.otp_request_count = 1, !.last_otp_sent_at = now,
                        !.rate_limit_reset_at = now + WINDOW_SECONDS]
  ELSE [existing EXCEPT !.otp_request_count = existing.otp_request_count + 1,
                        !.last_otp_sent_at = now]

NewWindowRow(userId, phoneNumber) ==
  [id |-> Cardinality(phone_verification_status) + 1,
   user_id |-> userId, phone_number |-> phoneNumber,
   otp_request_count |-> 1, last_otp_sent_at |-> now,
   rate_limit_reset_at |-> now + WINDOW_SECONDS,
   is_verified |-> FALSE, verified_at |-> NULL_TS, verification_method |-> NULL]

updateRateLimit(phoneNumber, userId, fault) ==
  LET rows == RowsOfPhone(phone_verification_status, userId, phoneNumber) IN
  phone_verification_status' =
    IF fault = "write" \/ Cardinality(rows) > 1 THEN phone_verification_status
    ELSE IF rows # {}
    THEN LET existing == CHOOSE r \in rows : TRUE
         IN  (phone_verification_status \ {existing}) \cup {WindowRow(existing)}
    ELSE phone_verification_status \cup {NewWindowRow(userId, phoneNumber)}

\* What a provider does with a send: it dispatches the message, or the call
\* throws (not configured, not reachable, refused).
SendOutcomes == {"sent", "throws"}

\* The send-otp endpoint: MSG91 first, Twilio when MSG91 throws.
send_otp(phoneNumber, msg91, twilio) ==
  IF ~IsCanonicalPhone(phoneNumber)
  THEN [ok |-> FALSE, success |-> FALSE, provider |-> "none"]
  ELSE IF msg91 = "sent" THEN [ok |-> TRUE, success |-> TRUE, provider |-> "msg91"]
  ELSE IF twilio = "sent" THEN [ok |-> TRUE, success |-> TRUE, provider |-> "twilio"]
  ELSE [ok |-> FALSE, success |-> FALSE, provider |-> "none"]

\* What a sendOTP call leaves in resp; invoked tells whether the call got as
\* far as supabase.functions.invoke('send-otp').
SendReply(user, phoneNumber, error, status, invoked) ==
  resp' = [op |-> "sendOTP", caller |-> user, phone |-> phoneNumber, error |-> error,
           status |-> status, invoked |-> invoked]

\* A sendOTP that, unlike the code, goes on to the endpoint when the limiter
\* has denied the request.
sendOTP_ignores_denial(user, phoneNumber, msg91, twilio, fault) ==
  LET validation == validateIndianPhoneNumber(phoneNumber)
      formattedPhone == validation.formatted
      rateLimitStatus == RateLimitStatus(user, formattedPhone, fault)
      data == send_otp(formattedPhone, msg91, twilio)
  IN  /\ \A r \in phone_verification_status : r.otp_request_count < MaxRequestCount
      /\ IF ~validation.isValid \/ user = NULL \/ ~data.ok
         THEN /\ SendReply(user, phoneNumber, "invalid_phone", FullQuota, FALSE)
              /\ UNCHANGED <<phone_verification_status, sent_log>>
         ELSE /\ updateRateLimit(formattedPhone, user, fault)
              /\ sent_log' = sent_log \cup
                   {[user_id |-> user, phone_number |-> formattedPhone, at |-> now]}
              /\ SendReply(user, formattedPhone,
                           IF rateLimitStatus.canSend THEN "none" ELSE "RATE_LIMIT_EXCEEDED",
                           rateLimitStatus, TRUE)
      /\ UNCHANGED <<tables, now, inflight, recorder, wizard, endpoint, verified_log, sending>>

sendOTP(user, phoneNumber, msg91, twilio, fault) ==
  LET validation == validateIndianPhoneNumber(phoneNumber)
      formattedPhone == validation.formatted
      rateLimitStatus == RateLimitStatus(user, formattedPhone, fault)
      data == send_otp(formattedPhone, msg91, twilio)
      Failed(error, invoked) ==
        /\ SendReply(user, formattedPhone, error, rateLimitStatus, invoked)
        /\ UNCHANGED <<phone_verification_status, sent_log>>
  IN  /\ \A r \in phone_verification_status : r.otp_request_count < MaxRequestCount
      /\ IF ~validation.isValid
         THEN /\ SendReply(user, phoneNumber, "invalid_phone", FullQuota, FALSE)
              /\ UNCHANGED <<phone_verification_status, sent_log>>
         ELSE IF ~rateLimitStatus.canSend THEN Failed("RATE_LIMIT_EXCEEDED", FALSE)
         ELSE IF user = NULL THEN Failed("NOT_AUTHENTICATED", FALSE)
         ELSE IF ~data.ok THEN Failed("endpoint", TRUE)
         ELSE /\ updateRateLimit(formattedPhone, user, fault)
              /\ sent_log' = sent_log \cup
                   {[user_id |-> user, phone_number |-> formattedPhone, at |-> now]}
              /\ SendReply(user, formattedPhone, "none", rateLimitStatus, TRUE)
      /\ UNCHANGED <<tables, now, inflight, recorder, wizard, endpoint, verified_log, sending>>

\* Time passes until the next request arrives.
Tick(t) ==
  /\ t > now
  /\ now' = t
  /\ resp' = [op |-> "tick", caller |-> NULL, error |-> "none"]
  /\ UNCHANGED <<tables, inflight, recorder, wizard, otpVars>>

NextOtp ==
  \/ \E t \in Instants : Tick(t)
  \/ \E user \in Sessions, phoneNumber \in SendPhones, fault \in LimiterFaults :
       checkRateLimit(user, Plus91 \o phoneNumber, fault)
  \/ \E user \in Sessions, phoneNumber \in SendPhones,
        msg91 \in SendOutcomes, twilio \in SendOutcomes, fault \in LimiterFaults :
       sendOTP(user, phoneNumber, msg91, twilio, fault)

SpecOtp == Init /\ [][NextOtp]_vars

(***************************************************************************)
(* Vocabulary of the limiter's properties.                                 *)
(***************************************************************************)
CheckStep == resp'.op = "checkRateLimit" /\ resp'.caller # NULL
SendStep == resp'.op = "sendOTP" /\ resp'.caller # NULL
SendSucceeded == SendStep /\ resp'.error = "none"

\* The messages dispatched for a pair, and the window row of a pair.
SendsOf(user, phoneNumber) ==
  {s \in sent_log : s.user_id = user /\ s.phone_number = phoneNumber}
WindowRows(user, phoneNumber) == RowsOfPhone(phone_verification_status, user, phoneNumber)

\* s1 opened a window: nothing was sent for the pair in the hour before it.
OpensWindow(s1) ==
  \A s \in SendsOf(s1.user_id, s1.phone_number) :
    ~(s.at < s1.at /\ s.at >= s1.at - WINDOW_SECONDS)

\* Three sends of the pair, at least 60 s apart, the first of which opened
\* a window that has not ended.
ThreeSendsThisHour(user, phoneNumber) ==
  \E s1, s2, s3 \in SendsOf(user, phoneNumber) :
    /\ OpensWindow(s1)
    /\ s2.at >= s1.at + COOLDOWN_SECONDS
    /\ s3.at >= s2.at + COOLDOWN_SECONDS
    /\ now <= s1.at + WINDOW_SECONDS

(***************************************************************************)
(* C16.  Hourly cap: once three sends at least 60 s apart have succeeded   *)
(* for a pair in a fresh window, a check within the same hour answers      *)
(* canSend = false with remainingAttempts = 0; and a check made after the  *)
(* row's rate_limit_reset_at answers canSend = true with                   *)
(* remainingAttempts = 3.                                                  *)
(***************************************************************************)
C16_HourlyCap ==
  [][CheckStep =>
       /\ ThreeSendsThisHour(resp'.caller, resp'.phone)
            => ~resp'.status.canSend /\ resp'.status.remainingAttempts = 0
       /\ \A r \in WindowRows(resp'.caller, resp'.phone) :
            now > r.rate_limit_reset_at
              => /\ resp'.status.canSend
                 /\ resp'.status.remainingAttempts = MAX_OTP_REQUESTS_PER_HOUR]_vars

(***************************************************************************)
(* C17.  Cooldown: a sendOTP issued less than 60 s after the last          *)
(* successful send of the pair is denied, whatever quota remains; one      *)
(* issued 60 s or more after it is let through by the limiter when quota   *)
(* remains.                                                                *)
(***************************************************************************)
IsLastSend(s) == \A s2 \in SendsOf(s.user_id, s.phone_number) : s2.at <= s.at

QuotaRemains(user, phoneNumber) ==
  \A r \in WindowRows(user, phoneNumber) :
    now > r.rate_limit_reset_at \/ r.otp_request_count < MAX_OTP_REQUESTS_PER_HOUR

C17_Cooldown ==
  [][SendStep =>
       \A s \in SendsOf(resp'.caller, resp'.phone) :
         IsLastSend(s) =>
           /\ now - s.at < COOLDOWN_SECONDS => resp'.error = "RATE_LIMIT_EXCEEDED"
           /\ (now - s.at >= COOLDOWN_SECONDS /\ QuotaRemains(resp'.caller, resp'.phone))
                => resp'.status.canSend /\ resp'.error # "RATE_LIMIT_EXCEEDED"]_vars

(***************************************************************************)
(* C18.  The cooldown and the hourly cap are independent gates: a check    *)
(* answers canSend = false whenever the pair's last_otp_sent_at is less    *)
(* than 60 s before now, also when the window has just expired or the      *)
(* quota is full.                                                          *)
(***************************************************************************)
InCooldown(r) ==
  r.last_otp_sent_at # NULL_TS /\ now - r.last_otp_sent_at < COOLDOWN_SECONDS

C18_IndependentGates ==
  [][CheckStep =>
       \A r \in WindowRows(resp'.caller, resp'.phone) :
         InCooldown(r) => ~resp'.status.canSend]_vars

(***************************************************************************)
(* C19.  Consumption recording: a successful send writes the pair's window *)
(* row exactly once.  Within the window (now <= rate_limit_reset_at) the   *)
(* count grows by exactly 1, last_otp_sent_at becomes now and the reset    *)
(* time stays; with an expired window or no row the count becomes 1,       *)
(* last_otp_sent_at becomes now and the reset time becomes now + 1 hour.   *)
(***************************************************************************)
StartsWindow(r2) ==
  /\ r2.otp_request_count = 1
  /\ r2.last_otp_sent_at = now
  /\ r2.rate_limit_reset_at = now + WINDOW_SECONDS

Recorded(r, r2) ==
  IF now <= r.rate_limit_reset_at
  THEN /\ r2.otp_request_count = r.otp_request_count + 1
       /\ r2.last_otp_sent_at = now
       /\ r2.rate_limit_reset_at = r.rate_limit_reset_at
  ELSE StartsWindow(r2)

C19_ConsumptionRecorded ==
  [][SendSucceeded =>
       LET before == WindowRows(resp'.caller, resp'.phone)
           after == RowsOfPhone(phone_verification_status', resp'.caller, resp'.phone)
       IN  /\ Cardinality(before) <= 1
           /\ \E r2 \in after :
                /\ after = {r2}
                /\ IF before = {} THEN StartsWindow(r2)
                   ELSE \E r \in before : r2.id = r.id /\ Recorded(r, r2)
           /\ \A r \in phone_verification_status \ before :
                r \in phone_verification_status']_vars

(***************************************************************************)
(* C20.  The check is side-effect-free: no call of checkRateLimit changes  *)
(* a window row (otp_request_count, last_otp_sent_at, rate_limit_reset_at  *)
(* stay as they were), also when the check sees a stale window.            *)
(***************************************************************************)
AnyCheckStep == resp'.op = "checkRateLimit"

C20_CheckWritesNothing ==
  [][AnyCheckStep =>
       /\ phone_verification_status' = phone_verification_status
       /\ sent_log' = sent_log /\ verified_log' = verified_log
       /\ profiles' = profiles]_vars

\* A check has just answered for a pair whose window is stale.
C20_Witness ==
  /\ resp.op = "checkRateLimit"
  /\ resp.caller # NULL
  /\ resp.status.canSend
  /\ \E r \in WindowRows(resp.caller, resp.phone) :
       now > r.rate_limit_reset_at /\ r.otp_request_count >= 1

(***************************************************************************)
(* Two sendOTP calls in flight at once.  A call is four requests: the read *)
(* of checkRateLimit, the invoke of send-otp, and the select and the write *)
(* of updateRateLimit; requests of the two tabs interleave.  The calls of  *)
(* a burst are issued in the same instant, and no storage error strikes.   *)
(***************************************************************************)
RaceUser == "u1"
RacePhone == Plus91 \o Phone9876543210
RaceInstants == {0, 60, 120}

\* What an insert does when the pair already has a row.  The migration that
\* creates phone_verification_status is not part of the sources, so the
\* table may or may not carry a unique key on (user_id, phone_number).
InsertConflicts == {"unique_violation", "duplicate_row"}

Step(t, pc) == resp' = [op |-> pc, caller |-> RaceUser, tab |-> t, error |-> "none"]

Returned(t, error) ==
  /\ sending' = [sending EXCEPT ![t] = NotSending]
  /\ resp' = [op |-> "sendOTP", caller |-> RaceUser, tab |-> t, error |-> error]

sendOTP_checkRateLimit(t) ==
  /\ sending[t].pc = "idle"
  /\ \A r \in phone_verification_status : r.otp_request_count < MaxRequestCount
  /\ Cardinality(phone_verification_status) < MaxWindowRows
  /\ IF RateLimitStatus(RaceUser, RacePhone, "none").canSend
     THEN /\ sending' = [sending EXCEPT ![t] = [pc |-> "invoke"]]
          /\ Step(t, "checkRateLimit")
     ELSE Returned(t, "RATE_LIMIT_EXCEEDED")
  /\ UNCHANGED <<tables, now, inflight, recorder, wizard, endpoint, phone_verification_status,
                 verified_log, sent_log>>

sendOTP_invoke(t, msg91, twilio) ==
  /\ sending[t].pc = "invoke"
  /\ IF send_otp(RacePhone, msg91, twilio).ok
     THEN /\ sent_log' = sent_log \cup
               {[user_id |-> RaceUser, phone_number |-> RacePhone, at |-> now, by |-> t]}
          /\ sending' = [sending EXCEPT ![t] = [pc |-> "select"]]
          /\ Step(t, "invoke")
     ELSE Returned(t, "endpoint") /\ UNCHANGED sent_log
  /\ UNCHANGED <<tables, now, inflight, recorder, wizard, endpoint, phone_verification_status, verified_log>>

\* maybeSingle: the row, or nothing when there is none or more than one.
updateRateLimit_select(t) ==
  LET rows == RowsOfPhone(phone_verification_status, RaceUser, RacePhone) IN
  /\ sending[t].pc = "select"
  /\ sending' = [sending EXCEPT ![t] =
       [pc |-> "write", existing |-> IF Cardinality(rows) = 1 THEN rows ELSE {}]]
  /\ Step(t, "select")
  /\ UNCHANGED <<tables, now, inflight, recorder, wizard, endpoint, phone_verification_status,
                 verified_log, sent_log>>

updateRateLimit_write(t, conflict) ==
  LET existing == sending[t].existing
      rows == RowsOfPhone(phone_verification_status, RaceUser, RacePhone)
  IN  /\ sending[t].pc = "write"
      /\ phone_verification_status' =
           IF existing # {}
           THEN LET written == WindowRow(CHOOSE r \in existing : TRUE)
                IN  {IF r.id = written.id
                     THEN [r EXCEPT !.otp_request_count = written.otp_request_count,
                                    !.last_otp_sent_at = written.last_otp_sent_at,
                                    !.rate_limit_reset_at = written.rate_limit_reset_at]
                     ELSE r : r \in phone_verification_status}
           ELSE IF rows # {} /\ conflict = "unique_violation"
           THEN phone_verification_status
           ELSE phone_verification_status \cup {NewWindowRow(RaceUser, RacePhone)}
      /\ Returned(t, "none")
      /\ UNCHANGED <<tables, now, inflight, recorder, wizard, endpoint, verified_log, sent_log>>

\* Time passes between two bursts of calls, not in the middle of one.
RaceTick(t) ==
  /\ \A tab \in SendTabs : sending[tab].pc = "idle"
  /\ t > now
  /\ now' = t
  /\ resp' = [op |-> "tick", caller |-> NULL, error |-> "none"]
  /\ UNCHANGED <<tables, inflight, recorder, wizard, otpVars>>

NextSendRace ==
  \/ \E t \in RaceInstants : RaceTick(t)
  \/ \E t \in SendTabs : sendOTP_checkRateLimit(t)
  \/ \E t \in SendTabs, msg91 \in SendOutcomes, twilio \in SendOutcomes :
       sendOTP_invoke(t, msg91, twilio)
  \/ \E t \in SendTabs : updateRateLimit_select(t)
  \/ \E t \in SendTabs, conflict \in InsertConflicts : updateRateLimit_write(t, conflict)

SpecSendRace == Init /\ [][NextSendRace]_vars

\* The sends dispatched in the window of a row, and no call being in flight.
SendsInWindow(r) ==
  {s \in SendsOf(r.user_id, r.phone_number) :
     s.at >= r.rate_limit_reset_at - WINDOW_SECONDS /\ s.at <= r.rate_limit_reset_at}
Quiescent == \A t \in SendTabs : sending[t].pc = "idle"

(***************************************************************************)
(* C21.  With two sendOTP calls of one user for one phone interleaved in   *)
(* any way, a window sees at most one send beyond the quota of 3, and once *)
(* the calls have returned the row's otp_request_count equals the number   *)
(* of sends dispatched in its window (no update is lost).                  *)
(***************************************************************************)
AtMostOneExtraSend ==
  \A r \in phone_verification_status :
    Cardinality(SendsInWindow(r)) <= MAX_OTP_REQUESTS_PER_HOUR + 1

NoLostUpdate ==
  Quiescent => \A r \in phone_verification_status :
                 r.otp_request_count = Cardinality(SendsInWindow(r))

C21_RaceBounded == AtMostOneExtraSend /\ NoLostUpdate

(***************************************************************************)
(* Several users asking for codes for one phone number, one call at a      *)
(* time, no storage error.                                                 *)
(***************************************************************************)
SharedInstants == {0, 60, 120}

NextShared ==
  \/ \E t \in SharedInstants : Tick(t)
  \/ \E user \in Applicants, msg91 \in SendOutcomes, twilio \in SendOutcomes :
       sendOTP(user, Phone9876543210, msg91, twilio, "none")

SpecShared == Init /\ [][NextShared]_vars

(***************************************************************************)
(* C22.  The limit is per phone number: in any hour at most 3 messages are *)
(* dispatched to one number, the requests of all users counted together.   *)
(***************************************************************************)
SendsToPhoneWithinHourOf(s) ==
  {s2 \in sent_log :
     /\ s2.phone_number = s.phone_number
     /\ s2.at >= s.at /\ s2.at < s.at + WINDOW_SECONDS}

C22_PerPhoneLimit ==
  \A s \in sent_log :
    Cardinality(SendsToPhoneWithinHourOf(s)) <= MAX_OTP_REQUESTS_PER_HOUR

(***************************************************************************)
(* C23.  A denial of the limiter is never turned into a provider call:     *)
(* when checkRateLimit answers canSend = false, sendOTP fails with the     *)
(* error RATE_LIMIT_EXCEEDED (not a validation error), send-otp is not     *)
(* invoked, nothing is dispatched and no window row changes.               *)
(***************************************************************************)
DeniedSendStep ==
  resp'.op = "sendOTP" /\ resp'.error # "invalid_phone" /\ ~resp'.status.canSend

C23_DenialMakesNoCall ==
  [][DeniedSendStep =>
       /\ resp'.error = "RATE_LIMIT_EXCEEDED"
       /\ ~resp'.invoked
       /\ sent_log' = sent_log
       /\ phone_verification_status' = phone_verification_status]_vars

\* A sendOTP of a signed-in user has just been denied by the hourly cap.
C23_Witness ==
  /\ resp.op = "sendOTP"
  /\ resp.caller # NULL
  /\ resp.error = "RATE_LIMIT_EXCEEDED"
  /\ ~resp.status.canSend
  /\ \E r \in WindowRows(resp.caller, resp.phone) :
       r.otp_request_count >= MAX_OTP_REQUESTS_PER_HOUR /\ now <= r.rate_limit_reset_at

(***************************************************************************)
(* C24.  Every denial of the limiter carries a retry-after time: the       *)
(* row's rate_limit_reset_at when the quota is exhausted, and              *)
(* last_otp_sent_at + 60 s when the cooldown is the reason.                *)
(***************************************************************************)
DeniedCheckStep == resp'.op = "checkRateLimit" /\ ~resp'.status.canSend

QuotaExhausted(r) ==
  now <= r.rate_limit_reset_at /\ r.otp_request_count >= MAX_OTP_REQUESTS_PER_HOUR

Functions == {"send-otp", "verify-otp"}

\* What a provider function meets: the provider accepts (message sent /
\* code approved), the provider answers with a non-success response, the
\* fetch fails, the credentials are not configured (no fetch is made), or
\* the provider never answers the fetch.
CallOutcomes == {"success", "non_success", "network_error", "no_credentials", "silent"}

BodyPhones == {RacePhone, Phone9876543210, << >>}
BodyOtps == {<<"1", "2", "3", "4", "5", "6">>, <<"1", "2", "3">>, << >>}
BodyUsers == {"u1", NULL}
Bodies ==
  [phoneNumber : BodyPhones, otp : BodyOtps, userId : BodyUsers]

Response(status, success, verified, provider, message) ==
  [status |-> status, success |-> success, verified |-> verified,
   provider |-> provider, message |-> message]

Respond(response) ==
  endpoint' = [endpoint EXCEPT !.pc = "responded", !.response = response]

\* The fields the handler requires, and the 400 answer of its validation
\* ("ok" when the body passes).
MissingField(fn, body) ==
  \/ body.phoneNumber = << >>
  \/ body.userId = NULL
  \/ fn = "verify-otp" /\ body.otp = << >>

\* A validation that, unlike the code, does not test the format of the code.
ValidationError_without_code_format(fn, body) ==
  IF MissingField(fn, body)
  THEN (IF fn = "send-otp" THEN "Phone number and user ID are required"
        ELSE "Phone number, OTP, and user ID are required")
  ELSE IF ~IsCanonicalPhone(body.phoneNumber) THEN "Invalid Indian phone number format"
  ELSE "ok"

ValidationError(fn, body) ==
  IF MissingField(fn, body)
  THEN (IF fn = "send-otp" THEN "Phone number and user ID are required"
        ELSE "Phone number, OTP, and user ID are required")
  ELSE IF ~IsCanonicalPhone(body.phoneNumber) THEN "Invalid Indian phone number format"
  ELSE IF fn = "verify-otp" /\ ~IsSixDigits(body.otp) THEN "OTP must be 6 digits"
  ELSE "ok"

serve(fn, body) ==
  /\ endpoint.pc \in {"idle", "responded"}
  /\ endpoint' =
       IF ValidationError(fn, body) # "ok"
       THEN [pc |-> "responded", fn |-> fn, body |-> body,
             msg91 |-> "none", twilio |-> "none",
             response |-> Response(400, FALSE, FALSE, "none", ValidationError(fn, body))]
       ELSE [pc |-> "msg91", fn |-> fn, body |-> body,
             msg91 |-> "none", twilio |-> "none",
             response |-> Response(0, FALSE, FALSE, "none", "none")]
  /\ resp' = [op |-> endpoint'.fn, caller |-> NULL, error |-> "none"]
  /\ UNCHANGED <<tables, now, inflight, recorder, wizard, phone_verification_status,
                 verified_log, sent_log, sending>>

\* A handler in which only a failed fetch makes the provider function throw.
Throws_on_fetch_error_only(fn, outcome) ==
  outcome = "network_error"

\* Does the provider function throw?  The send functions throw on every
\* failure; the verify functions return false on a non-success response.
Throws(fn, outcome) ==
  \/ outcome \in {"network_error", "no_credentials"}
  \/ fn = "send-otp" /\ outcome = "non_success"

BothUnavailable(fn) ==
  IF fn = "send-otp"
  THEN "Failed to send OTP. Both SMS providers are unavailable."
  ELSE "Failed to verify OTP. Both SMS providers are unavailable."

Success200(fn, verified, provider) ==
  Response(200, TRUE, verified, provider,
           IF fn = "send-otp" THEN "OTP sent successfully via " \o provider
           ELSE IF verified THEN "Phone number verified successfully"
           ELSE "Invalid or expired OTP")

\* sendOTPViaMSG91 / verifyOTPViaMSG91 and what the handler does next.
ViaMSG91(outcome) ==
  /\ endpoint.pc = "msg91"
  /\ IF outcome = "silent"
     THEN endpoint' = [endpoint EXCEPT !.pc = "awaiting", !.msg91 = outcome]
     ELSE IF Throws(endpoint.fn, outcome)
     THEN endpoint' = [endpoint EXCEPT !.pc = "twilio", !.msg91 = outcome]
     ELSE endpoint' = [endpoint EXCEPT !.pc = "responded", !.msg91 = outcome,
            !.response = Success200(endpoint.fn, outcome = "success", "msg91")]
  /\ resp' = [op |-> endpoint'.fn, caller |-> NULL, error |-> "none"]
  /\ UNCHANGED <<tables, now, inflight, recorder, wizard, phone_verification_status,
                 verified_log, sent_log, sending>>

\* sendOTPViaTwilio / verifyOTPViaTwilio and what the handler does next.
ViaTwilio(outcome) ==
  /\ endpoint.pc = "twilio"
  /\ IF outcome = "silent"
     THEN endpoint' = [endpoint EXCEPT !.pc = "awaiting", !.twilio = outcome]
     ELSE IF Throws(endpoint.fn, outcome)
     THEN endpoint' = [endpoint EXCEPT !.pc = "responded", !.twilio = outcome,
            !.response = Response(500, FALSE, FALSE, "none",
                                  BothUnavailable(endpoint.fn))]
     ELSE endpoint' = [endpoint EXCEPT !.pc = "responded", !.twilio = outcome,
            !.response = Success200(endpoint.fn, outcome = "success", "twilio")]
  /\ resp' = [op |-> endpoint'.fn, caller |-> NULL, error |-> "none"]
  /\ UNCHANGED <<tables, now, inflight, recorder, wizard, phone_verification_status,
                 verified_log, sent_log, sending>>

NextEndpoint ==
  \/ \E fn \in Functions, body \in Bodies : serve(fn, body)
  \/ \E outcome \in CallOutcomes : ViaMSG91(outcome)
  \/ \E outcome \in CallOutcomes : ViaTwilio(outcome)

SpecEndpoint == Init /\ [][NextEndpoint]_vars

\* The handler answers the request in this step.
Answers == endpoint.pc # "responded" /\ endpoint'.pc = "responded"
CallFailed(outcome) == outcome \notin {"none", "success"}

(***************************************************************************)
(* C25.  Send failover ordering: send-otp tries MSG91 first; Twilio is     *)
(* called only when the MSG91 call failed, and then once; the provider of  *)
(* the response is the one whose call succeeded; when both fail the        *)
(* request ends with status 500 and the "Both SMS providers are            *)
(* unavailable" error, without a further attempt.                          *)
(***************************************************************************)
C25_SendFailover ==
  [][(Answers /\ endpoint'.fn = "send-otp" /\ endpoint'.response.status # 400) =>
       LET e == endpoint' IN
       /\ e.msg91 # "none"
       /\ e.twilio # "none" <=> CallFailed(e.msg91)
       /\ e.msg91 = "success" =>
            e.response.status = 200 /\ e.response.provider = "msg91"
       /\ (CallFailed(e.msg91) /\ e.twilio = "success") =>
            e.response.status = 200 /\ e.response.provider = "twilio"
       /\ (CallFailed(e.msg91) /\ CallFailed(e.twilio)) =>
            /\ e.response.status = 500 /\ ~e.response.success
            /\ e.response.message = BothUnavailable("send-otp")]_vars

\* send-otp has just answered through Twilio after MSG91 failed.
C25_Witness ==
  /\ endpoint.pc = "responded"
  /\ endpoint.fn = "send-otp"
  /\ CallFailed(endpoint.msg91)
  /\ endpoint.twilio = "success"
  /\ endpoint.response.provider = "twilio"

(***************************************************************************)
(* C26.  Verify failover covers every kind of primary failure: when the    *)
(* MSG91 call of verify-otp met a network error, a non-success response or *)
(* missing credentials, Twilio is called once and its result is the        *)
(* answer, so a code that Twilio approves is reported verified = true.     *)
(***************************************************************************)
C26_VerifyFailover ==
  [][(Answers /\ endpoint'.fn = "verify-otp" /\ CallFailed(endpoint'.msg91)) =>
       LET e == endpoint' IN
       /\ e.twilio # "none"
       /\ e.twilio = "success" =>
            /\ e.response.status = 200
            /\ e.response.verified
            /\ e.response.provider = "twilio"]_vars

(***************************************************************************)
(* The OTP service and the two edge functions side by side: requests reach *)
(* the edge functions directly as well as through OTPService.              *)
(***************************************************************************)
NextValidation ==
  \/ NextEndpoint
  \/ \E user \in Sessions, phoneNumber \in SendPhones,
        msg91 \in SendOutcomes, twilio \in SendOutcomes :
       sendOTP(user, phoneNumber, msg91, twilio, "none")
  \/ \E phoneNumber \in TypedPhones, otp \in OtpInputs,
        msg91 \in ProviderOutcomes, twilio \in ProviderOutcomes :
       verifyOTP(WizardUser, phoneNumber, otp, msg91, twilio, "none")

SpecValidation == Init /\ [][NextValidation]_vars

\* A request body the edge function must refuse.
InvalidRequest(fn, body) ==
  \/ body.phoneNumber = << >>
  \/ body.userId = NULL
  \/ ~IsCanonicalPhone(body.phoneNumber)
  \/ fn = "verify-otp" /\ (body.otp = << >> \/ ~IsSixDigits(body.otp))

\* No request is handed to an edge function by this step.
NothingInvoked == ~resp'.invoked /\ resp'.error # "none" /\ endpoint' = endpoint

(***************************************************************************)
(* C27.  Validation errors make no external call: a send-otp or verify-otp *)
(* request with a missing field, a phone number not of the form +91[6-9]   *)
(* and nine more digits, or (verify) a code that is not six digits is      *)
(* answered with status 400 and neither provider is called; and            *)
(* OTPService.sendOTP / verifyOTP with an invalid phone number or code     *)
(* return a failure without invoking the edge function.                    *)
(***************************************************************************)
C27_ValidationMakesNoCall ==
  [][/\ (endpoint'.pc # "idle" /\ InvalidRequest(endpoint'.fn, endpoint'.body)) =>
          /\ endpoint'.pc = "responded"
          /\ endpoint'.response.status = 400
          /\ ~endpoint'.response.success
          /\ endpoint'.msg91 = "none" /\ endpoint'.twilio = "none"
     /\ (resp'.op = "sendOTP" /\ ~validateIndianPhoneNumber(resp'.phone).isValid) =>
          NothingInvoked /\ sent_log' = sent_log
     /\ (/\ resp'.op = "verifyOTP"
         /\ \/ ~validateIndianPhoneNumber(resp'.phone).isValid
            \/ ~IsSixDigits(resp'.otp)) =>
          NothingInvoked /\ verified_log' = verified_log /\ profiles' = profiles]_vars

\* verify-otp has answered a three-digit code with 400, and verifyOTP has
\* refused one as well.
C27_Witness ==
  /\ endpoint.pc = "responded"
  /\ endpoint.fn = "verify-otp"
  /\ IsCanonicalPhone(endpoint.body.phoneNumber)
  /\ endpoint.body.userId # NULL
  /\ Len(endpoint.body.otp) = 3
  /\ endpoint.response.status = 400
  /\ resp.op = "verifyOTP"
  /\ Len(resp.otp) = 3
  /\ resp.error = "invalid_otp"

(***************************************************************************)
(* The edge functions run on: a handler step that can be taken is taken.   *)
(* A provider that stays silent enables no step: the fetch has no timeout  *)
(* and the handler awaits it.                                              *)
(***************************************************************************)
SpecEndpointLive == SpecEndpoint /\ WF_vars(NextEndpoint)

Serving == endpoint.pc \in {"msg91", "twilio", "awaiting"}
Responded == endpoint.pc = "responded"
PrimarySilent == endpoint.pc # "idle" /\ endpoint.msg91 = "silent"
SecondaryTried == endpoint.pc # "idle" /\ endpoint.twilio # "none"

(***************************************************************************)
(* C28.  No OTP request blocks indefinitely: every send-otp and verify-otp *)
(* request that is being served is eventually answered, and a primary call *)
(* the provider never answers is followed by a call of the secondary       *)
(* provider.                                                               *)
(***************************************************************************)
C28_NoRequestBlocks ==
  /\ Serving ~> Responded
  /\ PrimarySilent ~> SecondaryTried

(***************************************************************************)
(* C29.  The provider that handled an OTP operation is what gets recorded: *)
(* after every successful verification the verification_method of the      *)
(* user's phone verification row equals the provider named in the answer   *)
(* of verify-otp, the provider whose call succeeded, also when that is the *)
(* fallback provider.                                                      *)
(***************************************************************************)
VerifiedStep == resp'.op = "verifyOTP" /\ resp'.error = "none"

C29_ProviderRecorded ==
  [][VerifiedStep =>
       \A r \in RowsOfPhone(phone_verification_status', resp'.caller,
                            validateIndianPhoneNumber(resp'.phone).formatted) :
         r.is_verified => r.verification_method = resp'.provider]_vars

(***************************************************************************)
(* The OTP a case row stores, and verify_phone_otp.  SQL comparisons with  *)
(* a NULL operand are unknown, and IF takes its branch only on true.       *)
(***************************************************************************)
StoredOtps == {NULL, "123456"}
SuppliedOtps == {NULL, "123456", "000000"}
OtpExpiries == {NULL_TS, 300}
OtpInstants == {400}

\* a != b and a < b in SQL
SqlNeq(a, b) == IF a = NULL \/ b = NULL THEN "unknown" ELSE IF a # b THEN "true" ELSE "false"
SqlLt(a, b) ==
  IF a = NULL_TS \/ b = NULL_TS THEN "unknown" ELSE IF a < b THEN "true" ELSE "false"
\* a OR b in SQL
SqlOr(a, b) ==
  IF a = "true" \/ b = "true" THEN "true"
  ELSE IF a = "unknown" \/ b = "unknown" THEN "unknown"
  ELSE "false"

\* The case row of a user whose phone step stored a code and its expiry.
CaseWithOtp(user, otp, expires) ==
  [NewKycRow(1, user, CHOOSE data \in SubmitInputs : data.documentType = "aadhar")
     EXCEPT !.phone_otp = otp, !.phone_otp_expires_at = expires]

\* The tables when the phone step of at most one user has stored a code.
InitPhoneOtp ==
  /\ now = 0
  /\ kyc_verifications \in
       {{}} \cup {{CaseWithOtp("u1", otp, expires)} :
                    otp \in StoredOtps, expires \in OtpExpiries}
  /\ profiles = [u \in Users |-> InitialProfile(u)]
  /\ notifications = << >>
  /\ resp = [op |-> "none", caller |-> NULL, kyc_id |-> NULL_ID, admin_id |-> NULL,
             reason |-> NULL_TEXT, error |-> "none"]
  /\ InitClients

\* UPDATE kyc_verifications SET ... WHERE user_id = p_user_id, without the
\* expiry column.
ClearOtp_keeps_expiry(r) ==
  [r EXCEPT !.phone_verified = TRUE, !.phone_otp = NULL, !.phone_otp_attempts = 0]

\* UPDATE kyc_verifications SET phone_verified = true, phone_otp = NULL,
\* phone_otp_expires_at = NULL, phone_otp_attempts = 0
ClearOtp(r) ==
  [r EXCEPT !.phone_verified = TRUE, !.phone_otp = NULL,
            !.phone_otp_expires_at = NULL_TS, !.phone_otp_attempts = 0]

verify_phone_otp(p_user_id, p_otp_code) ==
  /\ \/ /\ RowsOfUser(kyc_verifications, p_user_id) = {}
        /\ resp' = [op |-> "verify_phone_otp", caller |-> p_user_id,
                    code |-> p_otp_code, error |-> "none", result |-> FALSE]
        /\ UNCHANGED kyc_verifications
     \/ \E v_kyc_record \in RowsOfUser(kyc_verifications, p_user_id) :
          LET refused ==
                SqlOr(SqlNeq(v_kyc_record.phone_otp, p_otp_code),
                      SqlLt(v_kyc_record.phone_otp_expires_at, now)) = "true"
          IN /\ resp' = [op |-> "verify_phone_otp", caller |-> p_user_id,
                         code |-> p_otp_code, error |-> "none", result |-> ~refused]
             /\ kyc_verifications' =
                  IF refused THEN kyc_verifications
                  ELSE {IF r.user_id = p_user_id THEN ClearOtp(r) ELSE r :
                          r \in kyc_verifications}
  /\ UNCHANGED <<profiles, notifications, now, clientVars>>

NextPhoneOtp ==
  \/ \E t \in OtpInstants : Tick(t)
  \/ \E user \in Applicants, data \in SubmitInputs :
       Submit(user, data, "none") /\ UNCHANGED clientVars
  \/ \E user \in Applicants : Reset(user, "none") /\ UNCHANGED clientVars
  \/ \E admin \in Admins, kycId \in KycIds : \E adminId \in AdminIdInputs(admin) :
       approveKYC(admin, kycId, adminId, "none") /\ UNCHANGED clientVars
  \/ \E admin \in Admins, kycId \in KycIds : \E adminId \in AdminIdInputs(admin) :
       rejectKYC(admin, kycId, adminId, Text(<<"b", "d">>), "none") /\ UNCHANGED clientVars
  \/ \E p_user_id \in Applicants, p_otp_code \in SuppliedOtps :
       verify_phone_otp(p_user_id, p_otp_code)

SpecPhoneOtp == InitPhoneOtp /\ [][NextPhoneOtp]_vars

OtpCleared(r) == r.phone_otp = NULL /\ r.phone_otp_expires_at = NULL_TS

(***************************************************************************)
(* C30.  In every reachable state of a case row, phone_verified = true     *)
(* implies that phone_otp and phone_otp_expires_at are both null, and a    *)
(* step that clears one of the two leaves the other null as well.          *)
(***************************************************************************)
C30_OtpClearedTogether ==
  /\ [](\A r \in kyc_verifications : r.phone_verified => OtpCleared(r))
  /\ [][\A r \in kyc_verifications, r2 \in kyc_verifications' :
          (/\ r2.id = r.id
           /\ \/ r.phone_otp # NULL /\ r2.phone_otp = NULL
              \/ r.phone_otp_expires_at # NULL_TS /\ r2.phone_otp_expires_at = NULL_TS)
          => OtpCleared(r2)]_vars

\* verify_phone_otp has just accepted the stored code of a case.
C30_Witness ==
  /\ resp.op = "verify_phone_otp"
  /\ resp.result
  /\ resp.code = "123456"
  /\ \E r \in RowsOfUser(kyc_verifications, resp.caller) :
       r.phone_verified /\ OtpCleared(r)

(***************************************************************************)
(* C34.  verify_phone_otp(user, code) returns true and sets phone_verified *)
(* only when the user's case holds a non-null stored code equal to the     *)
(* supplied code and an expiry that has not passed; in every other         *)
(* situation it returns false and leaves the case rows unchanged.          *)
(***************************************************************************)
OtpStep == resp'.op = "verify_phone_otp"

\* The stored code of the case matches the supplied code and has not expired.
OtpMatches(r, code) ==
  /\ r.phone_otp # NULL
  /\ r.phone_otp = code
  /\ r.phone_otp_expires_at # NULL_TS
  /\ r.phone_otp_expires_at >= now

C35_NoCaseNoEffect ==
  [][(DecisionStep /\ RowsWithId(kyc_verifications, resp'.kyc_id) = {}) =>
       /\ ~Ok(resp')
       /\ kyc_verifications' = kyc_verifications
       /\ profiles' = profiles
       /\ notifications' = notifications]_vars

\* A decision on a case id that no row has was refused while a case exists.
C35_Witness ==
  /\ resp.op \in {"approve", "reject"}
  /\ resp.error = "not_null_violation"
  /\ RowsWithId(kyc_verifications, resp.kyc_id) = {}
  /\ kyc_verifications # {}

(***************************************************************************)
(* The limiter with calls issued one at a time and a store that answers    *)
(* every read and write.                                                   *)
(***************************************************************************)
NextOtpSound ==
  \/ \E t \in Instants : Tick(t)
  \/ \E user \in Sessions, phoneNumber \in SendPhones :
       checkRateLimit(user, Plus91 \o phoneNumber, "none")
  \/ \E user \in Sessions, phoneNumber \in SendPhones,
        msg91 \in SendOutcomes, twilio \in SendOutcomes :
       sendOTP(user, phoneNumber, msg91, twilio, "none")

SpecOtpSound == Init /\ [][NextOtpSound]_vars

\* The messages dispatched for the pair of a window row during its window.
SendsInWindowOf(r) ==
  {s \in SendsOf(r.user_id, r.phone_number) :
     /\ s.at >= r.rate_limit_reset_at - WINDOW_SECONDS
     /\ s.at <= r.rate_limit_reset_at}

(***************************************************************************)
(* C36.  A send that does not succeed consumes no quota: when sendOTP      *)
(* fails (invalid phone, limiter denial, no session, endpoint error, both  *)
(* providers unavailable) the window rows are unchanged; and with calls    *)
(* issued one at a time and no storage error, at most three sends succeed  *)
(* for one (user, phone) pair within one window.                           *)
(***************************************************************************)
C36_FailedSendConsumesNothing ==
  /\ [][(resp'.op = "sendOTP" /\ resp'.error # "none") =>
          /\ phone_verification_status' = phone_verification_status
          /\ sent_log' = sent_log]_vars
  /\ [](\A r \in phone_verification_status :
          /\ r.otp_request_count <= MAX_OTP_REQUESTS_PER_HOUR
          /\ Cardinality(SendsInWindowOf(r)) <= MAX_OTP_REQUESTS_PER_HOUR)

\* A fourth send of the hour has just been denied.
C36_Witness ==
  /\ resp.op = "sendOTP"
  /\ resp.error = "RATE_LIMIT_EXCEEDED"
  /\ \E r \in WindowRows(resp.caller, resp.phone) :
       /\ r.otp_request_count = MAX_OTP_REQUESTS_PER_HOUR
       /\ Cardinality(SendsInWindowOf(r)) = MAX_OTP_REQUESTS_PER_HOUR
       /\ now <= r.rate_limit_reset_at

(***************************************************************************)
(* A user who verifies phone numbers over time and asks for the            *)
(* verification status.                                                    *)
(***************************************************************************)
Phone9123456780 == <<"9", "1", "2", "3", "4", "5", "6", "7", "8", "0">>
VerifyPhones == {Phone9876543210, Phone9123456780}

\* .from('phone_verification_status').select(...).eq('user_id', userId)
\* .eq('is_verified', true).maybeSingle(): no row gives no data, more than
\* one row gives an error, and both are answered isVerified: false.
getVerificationStatus(userId) ==
  LET rows == {r \in phone_verification_status : r.user_id = userId /\ r.is_verified}
  IN /\ resp' = [op |-> "getVerificationStatus", caller |-> userId, error |-> "none",
                 isVerified |-> (Cardinality(rows) = 1),
                 phoneNumber |-> IF Cardinality(rows) = 1
                                 THEN Text((CHOOSE r \in rows : TRUE).phone_number)
                                 ELSE NULL_TEXT]
     /\ UNCHANGED <<tables, now, clientVars>>

NextVerified ==
  \/ \E phoneNumber \in VerifyPhones, msg91 \in SendOutcomes, twilio \in SendOutcomes :
       sendOTP(WizardUser, phoneNumber, msg91, twilio, "none")
  \/ \E phoneNumber \in VerifyPhones, otp \in OtpInputs,
        msg91 \in ProviderOutcomes, twilio \in ProviderOutcomes :
       verifyOTP(WizardUser, phoneNumber, otp, msg91, twilio, "none")
  \/ getVerificationStatus(WizardUser)

SpecVerified == Init /\ [][NextVerified]_vars

(***************************************************************************)
(* C37.  Verification is durable and visible: once verifyOTP has returned  *)
(* verified = true for a user, for one phone number or for several,        *)
(* getVerificationStatus(user) returns isVerified = true and the profile   *)
(* has phone_verified = true.                                              *)
(***************************************************************************)
C37_VerificationVisible ==
  [][(/\ resp'.op = "getVerificationStatus"
      /\ \E pair \in verified_log : pair[1] = resp'.caller) =>
       /\ resp'.isVerified
       /\ profiles[resp'.caller].phone_verified]_vars

(***************************************************************************)
(* The edge function delete-cloudinary-media and its two callers.  A JSON  *)
(* field that may be absent is NULL_TEXT when absent and Text(value) when  *)
(* present.                                                                *)
(***************************************************************************)
PublicIds == {"k1", "k2"}
KeyLists == {<< >>, <<"k1">>, <<"k2">>, <<"k1", "k2">>, <<"k1", "k1">>}
ResourceTypes == {"image", "video"}

\* What the destroy call of one key meets: the object is deleted, Cloudinary
\* has no such object, Cloudinary answers with an error, or the fetch throws.
DestroyOutcomes == {"ok", "not found", "error", "throws"}

\* deleteFromCloudinary(publicId, resourceType)
deleteFromCloudinary(outcome) ==
  IF outcome \in {"ok", "not found"} THEN [success |-> TRUE, error |-> "none"]
  ELSE [success |-> FALSE, error |-> outcome]

\* A loop that, unlike the code, stops at the first key that fails.
RECURSIVE DeleteEach_stops_at_failure(_, _, _, _)
DeleteEach_stops_at_failure(publicIds, outcomes, i, acc) ==
  IF i > Len(publicIds) THEN acc
  ELSE LET result == deleteFromCloudinary(outcomes[i])
           tried == [acc EXCEPT !.attempted = Append(@, publicIds[i])]
       IN IF result.success
          THEN DeleteEach_stops_at_failure(publicIds, outcomes, i + 1,
                 [tried EXCEPT !.deleted = Append(@, publicIds[i])])
          ELSE [tried EXCEPT !.errors =
                  Append(@, [publicId |-> publicIds[i], error |-> result.error])]

\* for (const publicId of publicIds) { ... }
RECURSIVE DeleteEach(_, _, _, _)
DeleteEach(publicIds, outcomes, i, acc) ==
  IF i > Len(publicIds) THEN acc
  ELSE LET result == deleteFromCloudinary(outcomes[i])
           tried == [acc EXCEPT !.attempted = Append(@, publicIds[i])]
       IN DeleteEach(publicIds, outcomes, i + 1,
            IF result.success
            THEN [tried EXCEPT !.deleted = Append(@, publicIds[i])]
            ELSE [tried EXCEPT !.errors =
                    Append(@, [publicId |-> publicIds[i], error |-> result.error])])

NothingDeleted == [attempted |-> << >>, deleted |-> << >>, errors |-> << >>]

\* The handler: what it attempted and what it answers.
delete_cloudinary_media(configured, body, outcomes) ==
  IF ~configured
  THEN [status |-> 400, success |-> FALSE, error |-> "Cloudinary credentials not configured"]
       @@ NothingDeleted
  ELSE IF body.publicIds = NULL_TEXT \/ body.publicIds[1] = << >>
  THEN [status |-> 400, success |-> FALSE, error |-> "publicIds array is required"]
       @@ NothingDeleted
  ELSE LET done == DeleteEach(body.publicIds[1], outcomes, 1, NothingDeleted)
       IN [status |-> 200, success |-> (done.errors = << >>), error |-> "none"] @@ done

\* The request as the edge function has served it.
Served(configured, body, outcomes) ==
  [pc |-> "responded", fn |-> "delete-cloudinary-media", configured |-> configured,
   body |-> body, outcomes |-> outcomes,
   response |-> delete_cloudinary_media(configured, body, outcomes)]

\* The outcomes the destroy calls of a request may meet, one per key.
OutcomesFor(publicIds) == [1..Len(publicIds) -> DestroyOutcomes]

\* CloudinaryService.deleteMedia(publicIds, resourceType)
deleteMedia(publicIds, resourceType, configured, outcomes) ==
  LET body == [publicIds |-> Text(publicIds), publicId |-> NULL_TEXT,
               resourceType |-> resourceType]
      served == Served(configured, body, outcomes)
  IN /\ endpoint' = served
     /\ resp' = [op |-> "deleteMedia", caller |-> NULL, keys |-> publicIds,
                 error |-> IF served.response.status = 200 THEN "none"
                           ELSE served.response.error]
     /\ UNCHANGED <<tables, now, inflight, recorder, wizard, phone_verification_status,
                    verified_log, sent_log, sending>>

\* deleteKYCMedia(publicId, resourceType) in the session of `user`.
deleteKYCMedia(user, publicId, resourceType, configured) ==
  LET body == [publicIds |-> NULL_TEXT, publicId |-> Text(publicId),
               resourceType |-> resourceType]
      served == Served(configured, body, << >>)
  IN /\ endpoint' = IF user = NULL THEN endpoint ELSE served
     /\ resp' = [op |-> "deleteKYCMedia", caller |-> user, keys |-> <<publicId>>,
                 error |-> IF user = NULL \/ served.response.status # 200
                           THEN "Failed to delete media" ELSE "none"]
     /\ UNCHANGED <<tables, now, inflight, recorder, wizard, phone_verification_status,
                    verified_log, sent_log, sending>>

NextDelete ==
  \/ \E publicIds \in KeyLists, resourceType \in ResourceTypes, configured \in BOOLEAN :
     \E outcomes \in OutcomesFor(publicIds) :
       deleteMedia(publicIds, resourceType, configured, outcomes)
  \/ \E user \in Sessions, publicId \in PublicIds, resourceType \in ResourceTypes,
        configured \in BOOLEAN :
       deleteKYCMedia(user, publicId, resourceType, configured)

SpecDelete == Init /\ [][NextDelete]_vars

\* A delete request with a non-empty publicIds list has been served.
DeleteServed ==
  /\ endpoint.pc = "responded"
  /\ endpoint.fn = "delete-cloudinary-media"
  /\ endpoint.body.publicIds # NULL_TEXT
  /\ endpoint.body.publicIds[1] # << >>

Count(seq, k) == Cardinality({i \in DOMAIN seq : seq[i] = k})
ErrorIds(errors) == [i \in DOMAIN errors |-> errors[i].publicId]
Succeeds(outcome) == outcome \in {"ok", "not found"}

(***************************************************************************)
(* C31 as stated.  For every non-empty list of publicIds, the handler      *)
(* attempts each key exactly once, every input key ends up in exactly one  *)
(* of deleted[] or errors[], a key whose remote object is missing is       *)
(* reported in deleted[], and success is true exactly when errors[] is     *)
(* empty.                                                                  *)
(***************************************************************************)
C31_BestEffortPerKey_AsStated ==
  DeleteServed =>
    LET ids == endpoint.body.publicIds[1]
        r == endpoint.response
    IN /\ \A i \in DOMAIN ids :
            /\ Count(r.attempted, ids[i]) = 1
            /\ Count(r.deleted, ids[i]) + Count(ErrorIds(r.errors), ids[i]) = 1
            /\ endpoint.outcomes[i] = "not found" => Count(r.deleted, ids[i]) = 1
       /\ r.success <=> r.errors = << >>

(***************************************************************************)
(* C31.  Media deletion is best-effort per entry: with the Cloudinary      *)
(* credentials configured, for every non-empty list of publicIds the       *)
(* handler attempts every entry of the list once, in order, whatever       *)
(* failed before; every entry ends up in deleted[] when its destroy call   *)
(* answered ok or not found and in errors[] otherwise; and success is true *)
(* exactly when errors[] is empty.  Without credentials nothing is         *)
(* attempted and the answer is 400.                                        *)
(***************************************************************************)
C31_BestEffortPerKey ==
  DeleteServed =>
    LET ids == endpoint.body.publicIds[1]
        r == endpoint.response
        Entries(k, ok) ==
          Cardinality({i \in DOMAIN ids :
                         ids[i] = k /\ (Succeeds(endpoint.outcomes[i]) <=> ok)})
    IN IF endpoint.configured
       THEN /\ r.status = 200
            /\ r.attempted = ids
            /\ \A k \in PublicIds :
                 /\ Count(r.deleted, k) = Entries(k, TRUE)
                 /\ Count(ErrorIds(r.errors), k) = Entries(k, FALSE)
            /\ r.success <=> r.errors = << >>
       ELSE r.status = 400 /\ ~r.success /\ r.attempted = << >>

\* A request whose first key failed and whose second key was missing
\* remotely: the first is in errors[], the second in deleted[].
C31_Witness ==
  /\ DeleteServed
  /\ endpoint.configured
  /\ endpoint.body.publicIds[1] = <<"k1", "k2">>
  /\ endpoint.outcomes = <<"error", "not found">>
  /\ endpoint.response.deleted = <<"k2">>
  /\ ErrorIds(endpoint.response.errors) = <<"k1">>
  /\ ~endpoint.response.success

(***************************************************************************)
(* C38.  Client and endpoint agree on the delete request: with the         *)
(* endpoint configured, a deleteKYCMedia(key) call from a signed-in        *)
(* session is accepted by delete-cloudinary-media, which attempts exactly  *)
(* that key, and so is every deleteMedia(keys) call with a non-empty list. *)
(***************************************************************************)
C38_DeleteRequestAccepted ==
  [][(/\ resp'.op \in {"deleteKYCMedia", "deleteMedia"}
      /\ resp'.op = "deleteKYCMedia" => resp'.caller # NULL
      /\ resp'.keys # << >>
      /\ endpoint'.pc = "responded"
      /\ endpoint'.configured) =>
       /\ endpoint'.response.status = 200
       /\ endpoint'.response.attempted = resp'.keys]_vars

(***************************************************************************)
(* validateIndianPhoneNumber applied to typed strings: number bodies, good *)
(* and bad, in each input shape, with and without spaces and hyphens.      *)
(***************************************************************************)
NumberBodies ==
  { Phone9876543210,
    Phone9123456780,
    <<"6", "0", "0", "0", "0", "0", "0", "0", "0", "0">>,
    <<"5", "8", "7", "6", "5", "4", "3", "2", "1", "0">>,
    <<"9", "8", "7", "6", "5", "4", "3", "2", "1">>,
    <<"9", "8", "7", "6", "5", "4", "3", "2", "1", "0", "0">>,
    <<"9", "8", "7", "6", "5", "a", "3", "2", "1", "0">> }
InputPrefixes == {<< >>, <<"9", "1">>, Plus91, <<"0">>}
Decorations == {"none", "spaces", "hyphens", "mixed"}

InsertAt(str, i, c) == SubSeq(str, 1, i) \o <<c>> \o SubSeq(str, i + 1, Len(str))

\* The string as a user may type it.
Decorate(str, decoration) ==
  CASE decoration = "none" -> str
    [] decoration = "spaces" -> <<" ">> \o InsertAt(InsertAt(str, 7, " "), 2, " ") \o <<" ">>
    [] decoration = "hyphens" -> InsertAt(InsertAt(str, 7, "-"), 2, "-")
    [] decoration = "mixed" -> InsertAt(InsertAt(str, 7, "-"), 2, " ") \o <<" ">>

TypedInputs ==
  {Decorate(prefix \o body, decoration) :
     prefix \in InputPrefixes, body \in NumberBodies, decoration \in Decorations}

validate(phone) ==
  /\ resp' = [op |-> "validateIndianPhoneNumber", caller |-> NULL, error |-> "none",
              input |-> phone, result |-> validateIndianPhoneNumber(phone)]
  /\ UNCHANGED <<tables, now, clientVars>>

NextValidator == \E phone \in TypedInputs : validate(phone)

SpecValidator == Init /\ [][NextValidator]_vars

\* The input without spaces and hyphens, and the number bodies it can stand
\* for: itself, or what follows a 91 or +91 prefix.
Stripped(str) == SelectSeq(str, LAMBDA c : c # " " /\ c # "-")
IsValidBody(b) ==
  /\ Len(b) = 10
  /\ b[1] \in {"6", "7", "8", "9"}
  /\ \A i \in 1..10 : b[i] \in {"0", "1", "2", "3", "4", "5", "6", "7", "8", "9"}
BodiesOf(str) ==
  {b \in {Stripped(str)}
        \cup (IF Len(Stripped(str)) >= 2 /\ SubSeq(Stripped(str), 1, 2) = <<"9", "1">>
              THEN {SubSeq(Stripped(str), 3, Len(Stripped(str)))} ELSE {})
        \cup (IF Len(Stripped(str)) >= 3 /\ SubSeq(Stripped(str), 1, 3) = <<"+", "9", "1">>
              THEN {SubSeq(Stripped(str), 4, Len(Stripped(str)))} ELSE {}) :
     IsValidBody(b)}
Validated == resp.op = "validateIndianPhoneNumber"

(***************************************************************************)
(* C32.  For every valid number body (10 digits, first digit 6-9),         *)
(* validateIndianPhoneNumber returns isValid = true with the formatted     *)
(* value +91<body> for the bare body, 91 + body and +91 + body, with or    *)
(* without interspersed spaces and hyphens.                                *)
(***************************************************************************)
C32_ValidShapesAccepted ==
  Validated =>
    \A b \in BodiesOf(resp.input) :
      /\ resp.result.isValid
      /\ resp.result.formatted = <<"+", "9", "1">> \o b

\* A valid body typed with the 91 prefix, a space and a hyphen was accepted.
C32_Witness ==
  /\ Validated
  /\ resp.input = Decorate(<<"9", "1">> \o Phone9876543210, "mixed")
  /\ resp.result.isValid
  /\ resp.result.formatted = Plus91 \o Phone9876543210

(***************************************************************************)
(* C33.  For every input whose 10-digit body, after stripping whitespace,  *)
(* hyphens and an optional +91 / 91 prefix, does not match [6-9]\d{9},     *)
(* validateIndianPhoneNumber returns isValid = false with a non-empty      *)
(* error and no formatted value.                                           *)
(***************************************************************************)
C33_InvalidBodiesRefused ==
  (Validated /\ BodiesOf(resp.input) = {}) =>
    /\ ~resp.result.isValid
    /\ resp.result.error # ""
    /\ resp.result.formatted = << >>

\* A body with first digit 5, typed with +91 and hyphens, was refused.
C33_Witness ==
  /\ Validated
  /\ resp.input = Decorate(Plus91 \o <<"5", "8", "7", "6", "5", "4", "3", "2", "1", "0">>,
                           "hyphens")
  /\ ~resp.result.isValid
  /\ resp.result.error # ""

(***************************************************************************)
(* The video step: the VideoRecorder component and the page handler it     *)
(* calls.  handleVideoRecorded awaits uploadKYCVideo, so the handler is    *)
(* two steps, and nothing disables the Upload Video button meanwhile.      *)
(***************************************************************************)
\* <VideoRecorder onVideoRecorded={handleVideoRecorded} maxDuration={10} />
maxDuration == 10
\* The model stops the interval timer at this reading of recordingTime.
MaxRecordingTime == 12
\* handleVideoRecorded calls that may await their upload at one time.
MaxUploads == 2

\* {currentStep === 'video' && ... <VideoRecorder ... />}
RecorderShown == StepShown("video")

\* stopRecording as created by a render in which isRecording had the value
\* isRecordingSeen: mediaRecorder.stop(), setIsRecording(false), clearInterval.
stopRecording(c, isRecordingSeen) ==
  IF isRecordingSeen
  THEN [c EXCEPT !.isRecording = FALSE, !.stopping = TRUE, !.timerRef = NoTimer]
  ELSE c

\* Start Recording.  getUserMedia or the MediaRecorder constructor may throw
\* (granted = FALSE): the catch sets the error text only.  Otherwise the
\* recorder starts and the interval is armed; its callback holds the
\* stopRecording of the render that created this startRecording.  The effect
\* cleanup of [stream] runs once setStream(mediaStream) is rendered: where the
\* setters of the continuation are batched into one render (batched = TRUE),
\* it runs after setInterval and clears the new timer; where each setter
\* renders at once, it runs before setInterval and finds no timer.
startRecording(granted, batched) ==
  /\ RecorderShown
  /\ ~recorder.component.isRecording /\ ~recorder.component.isPreviewing
  /\ LET c == recorder.component
     IN IF ~granted
        THEN /\ Handled("startRecording", "Failed to access camera")
             /\ UNCHANGED recorder
        ELSE /\ recorder' =
                  [recorder EXCEPT !.component =
                     [c EXCEPT !.isRecording = TRUE, !.recordingTime = 0,
                               !.timerRef = [armed |-> ~batched,
                                             isRecording |-> c.isRecording]]]
             /\ Handled("startRecording", "none")
  /\ UNCHANGED <<tables, now, inflight, wizard, otpVars>>

\* The interval callback, once a second: setRecordingTime(prev => ...), with
\* stopRecording() called at the limit.
interval ==
  /\ recorder.component.timerRef.armed
  /\ recorder.component.recordingTime < MaxRecordingTime
  /\ LET c == recorder.component
         newTime == c.recordingTime + 1
         counted == [c EXCEPT !.recordingTime = newTime]
     IN recorder' = [recorder EXCEPT !.component =
                       IF newTime >= maxDuration
                       THEN stopRecording(counted, c.timerRef.isRecording)
                       ELSE counted]
  /\ Handled("interval", "none")
  /\ UNCHANGED <<tables, now, inflight, wizard, otpVars>>

\* Stop Recording, shown while isRecording: the stopRecording of this render.
pressStop ==
  /\ RecorderShown
  /\ recorder.component.isRecording
  /\ recorder' = [recorder EXCEPT !.component =
                    stopRecording(recorder.component, recorder.component.isRecording)]
  /\ Handled("stopRecording", "none")
  /\ UNCHANGED <<tables, now, inflight, wizard, otpVars>>

\* mediaRecorder.onstop: the blob is kept and the preview is shown.
onstop ==
  /\ recorder.component.stopping
  /\ recorder' = [recorder EXCEPT !.component.stopping = FALSE,
                                  !.component.videoBlob = TRUE,
                                  !.component.isPreviewing = TRUE]
  /\ Handled("onstop", "none")
  /\ UNCHANGED <<tables, now, inflight, wizard, otpVars>>

\* Retake, shown while isPreviewing.
handleRetake ==
  /\ RecorderShown
  /\ recorder.component.isPreviewing
  /\ recorder' = [recorder EXCEPT !.component.videoBlob = FALSE,
                                  !.component.isPreviewing = FALSE,
                                  !.component.recordingTime = 0]
  /\ Handled("handleRetake", "none")
  /\ UNCHANGED <<tables, now, inflight, wizard, otpVars>>

\* Upload Video, shown while isPreviewing: onVideoRecorded(videoBlob), that is
\* handleVideoRecorded up to its await of uploadKYCVideo.
handleUpload ==
  /\ RecorderShown
  /\ recorder.component.isPreviewing
  /\ recorder.uploads < MaxUploads
  /\ IF recorder.component.videoBlob
     THEN recorder' = [recorder EXCEPT !.uploads = @ + 1]
     ELSE UNCHANGED recorder
  /\ Handled("handleUpload", "none")
  /\ UNCHANGED <<tables, now, inflight, wizard, otpVars>>

\* handleVideoRecorded from the await on: uploadKYCVideo has settled with
\* `result`.  On success the setters run whatever step the page shows by
\* now; the VideoRecorder is not rendered at step document, so its state is
\* gone.
handleVideoRecorded_resumes(result) ==
  /\ recorder.uploads > 0
  /\ IF result = UploadFailed
     THEN /\ Handled("handleVideoRecorded", "Upload Failed")
          /\ recorder' = [recorder EXCEPT !.uploads = @ - 1]
          /\ UNCHANGED wizard
     ELSE /\ wizard' = [wizard EXCEPT !.uploadedVideoUrl = result.url,
                                      !.uploadedVideoPublicId = result.publicId,
                                      !.currentStep = "document"]
          /\ recorder' = [component |-> InitialComponent,
                          uploads |-> recorder.uploads - 1]
          /\ Handled("handleVideoRecorded", "none")
  /\ UNCHANGED <<tables, now, inflight, otpVars>>

NextVideoStep ==
  \/ \E value \in TypedPhones : setPhoneNumber(value)
  \/ handlePhoneSubmit
  \/ \E granted \in BOOLEAN, batched \in BOOLEAN : startRecording(granted, batched)
  \/ interval
  \/ pressStop
  \/ onstop
  \/ handleRetake
  \/ handleUpload
  \/ \E result \in VideoUploads : handleVideoRecorded_resumes(result)
  \/ \E result \in DocumentUploads : handleDocumentUpload(result)

SpecVideoStep == Init /\ [][NextVideoStep]_vars

StepOrder == {<<"phone", "video">>, <<"video", "document">>, <<"document", "review">>}
UploadStep == resp'.op \in {"handleVideoRecorded", "handleDocumentUpload"}

(***************************************************************************)
(* C39.  The wizard advances only on success and never skips a step:       *)
(* currentStep changes only along phone -> video -> document -> review, a  *)
(* failed video or document upload leaves the page state unchanged, and    *)
(* the page is at step review only with a video reference and a document   *)
(* reference that are both non-empty.                                      *)
(***************************************************************************)
C39_StepsInOrder ==
  /\ [][wizard'.currentStep # wizard.currentStep
          => <<wizard.currentStep, wizard'.currentStep>> \in StepOrder]_vars
  /\ [][(UploadStep /\ ~Ok(resp')) => wizard' = wizard]_vars
  /\ [](wizard.currentStep = "review"
          => wizard.uploadedVideoUrl # "" /\ wizard.uploadedDocUrl # "")

(***************************************************************************)
(* C40.  The recorder stops by itself at the limit: whenever recordingTime *)
(* has reached maxDuration the recording is stopped and the timer is       *)
(* cleared, and recordingTime never exceeds maxDuration.                   *)
(***************************************************************************)
C40_StopsAtLimit ==
  /\ recorder.component.recordingTime <= maxDuration
  /\ recorder.component.recordingTime = maxDuration
       => /\ ~recorder.component.isRecording
          /\ ~recorder.component.timerRef.armed

====
